---- MODULE Spec2Model ----
(***************************************************************************)
(* A model of rem (github.com/evantbyrne/rem): the query builder, the two  *)
(* SQL dialects (pqdialect, sqlitedialect), the reflection mapper and the  *)
(* relationship prefetch of Query.slice.                                   *)
(*                                                                         *)
(* SQL text is a sequence of string tokens, one token per piece the code   *)
(* writes to its strings.Builder; a parameter placeholder is always a      *)
(* token of its own.  Go values (int64, string, ...) are integers; the Go  *)
(* nil / SQL NULL is Nil.  A Go error is a string, "" being the nil error. *)
(***************************************************************************)
EXTENDS Integers, Sequences, FiniteSets, TLC

Nil == 0 - 1

NoErr == ""

(***************************************************************************)
(* Bounds of the model.                                                    *)
(***************************************************************************)
MaxSteps == 3

MaxRows == 2

MaxFilters == 2

MaxCols == 2

(***************************************************************************)
(* The model structs of query_test.go (testAccountsQuerySlice and          *)
(* testGroupsQuerySlice), in reflect.VisibleFields order.  hasDb says      *)
(* whether the field carries a `db` tag; db_primary and primary_key say    *)
(* whether the tag of that name is "true"; any other tag of the field is   *)
(* a field of the record, read with TagGet.                                *)
(***************************************************************************)
testAccountsQuerySlice ==
    << [Name |-> "Group", Type |-> "rem.NullForeignKey[", To |-> "Groups",
        hasDb |-> TRUE, db |-> "group_id", db_primary |-> FALSE, primary_key |-> FALSE,
        db_on_delete |-> "SET NULL"],
       [Name |-> "Id", Type |-> "int64", To |-> "",
        hasDb |-> TRUE, db |-> "id", db_primary |-> TRUE, primary_key |-> FALSE],
       [Name |-> "Name", Type |-> "string", To |-> "",
        hasDb |-> TRUE, db |-> "name", db_primary |-> FALSE, primary_key |-> FALSE] >>

testGroupsQuerySlice ==
    << [Name |-> "Accounts", Type |-> "rem.OneToMany[", To |-> "Accounts",
        hasDb |-> TRUE, db |-> "group_id", db_primary |-> FALSE, primary_key |-> FALSE],
       [Name |-> "Id", Type |-> "int64", To |-> "",
        hasDb |-> TRUE, db |-> "id", db_primary |-> TRUE, primary_key |-> FALSE],
       [Name |-> "Name", Type |-> "string", To |-> "",
        hasDb |-> TRUE, db |-> "name", db_primary |-> FALSE, primary_key |-> FALSE,
        db_max_length |-> "100"] >>

(* The struct of the migration log (migration.go). *)
MigrationLogs ==
    << [Name |-> "CreatedAt", Type |-> "time.Time", To |-> "",
        hasDb |-> TRUE, db |-> "created_at", db_primary |-> FALSE, primary_key |-> FALSE],
       [Name |-> "Direction", Type |-> "string", To |-> "",
        hasDb |-> TRUE, db |-> "direction", db_primary |-> FALSE, primary_key |-> FALSE,
        db_max_length |-> "10"],
       [Name |-> "Id", Type |-> "int64", To |-> "",
        hasDb |-> TRUE, db |-> "id", db_primary |-> FALSE, primary_key |-> TRUE],
       [Name |-> "MigrationType", Type |-> "string", To |-> "",
        hasDb |-> TRUE, db |-> "migration_type", db_primary |-> FALSE,
        primary_key |-> FALSE, db_max_length |-> "255"] >>

(* A pair of models whose primary keys are fields of different names: the  *)
(* key of Teams is a field Guid (README, "Primary keys"), that of Members  *)
(* a field Id.                                                             *)
Members ==
    << [Name |-> "Id", Type |-> "int64", To |-> "",
        hasDb |-> TRUE, db |-> "id", db_primary |-> TRUE, primary_key |-> FALSE],
       [Name |-> "Team", Type |-> "rem.NullForeignKey[", To |-> "Teams",
        hasDb |-> TRUE, db |-> "team_id", db_primary |-> FALSE, primary_key |-> FALSE] >>

Teams ==
    << [Name |-> "Guid", Type |-> "int64", To |-> "",
        hasDb |-> TRUE, db |-> "guid", db_primary |-> TRUE, primary_key |-> FALSE],
       [Name |-> "Members", Type |-> "rem.OneToMany[", To |-> "Members",
        hasDb |-> TRUE, db |-> "team_id", db_primary |-> FALSE, primary_key |-> FALSE] >>

(* The struct Accounts declared inside Migration0001Accounts.Up (README,   *)
(* "Migrations"): a type of its own, named like the package-level one.     *)
LocalAccounts ==
    << [Name |-> "Id", Type |-> "int64", To |-> "",
        hasDb |-> TRUE, db |-> "id", db_primary |-> FALSE, primary_key |-> TRUE],
       [Name |-> "Name", Type |-> "string", To |-> "",
        hasDb |-> TRUE, db |-> "name", db_primary |-> FALSE, primary_key |-> FALSE,
        db_max_length |-> "100"] >>

ModelTypes == {"Accounts", "Groups"}

StructTypes == ModelTypes \cup {"MigrationLogs", "Members", "Teams", "LocalAccounts"}

(* reflect.Type.Name(): the declared name, without the declaring scope. *)
TypeName(T) == IF T = "LocalAccounts" THEN "Accounts" ELSE T

VisibleFields(T) ==
    IF T = "Accounts" THEN testAccountsQuerySlice
    ELSE IF T = "Groups" THEN testGroupsQuerySlice
    ELSE IF T = "Members" THEN Members
    ELSE IF T = "Teams" THEN Teams
    ELSE IF T = "LocalAccounts" THEN LocalAccounts
    ELSE MigrationLogs

ToLower(T) ==
    IF TypeName(T) = "Accounts" THEN "accounts"
    ELSE IF T = "Groups" THEN "groups"
    ELSE IF T = "Members" THEN "members"
    ELSE IF T = "Teams" THEN "teams"
    ELSE "migrationlogs"

(* reflect.StructTag.Get for the tags kept as strings: "" when absent. *)
TagGet(field, key) == IF key \in DOMAIN field THEN field[key] ELSE ""

IsForeignKey(type) == type = "rem.ForeignKey[" \/ type = "rem.NullForeignKey["

IsOneToMany(type) == type = "rem.OneToMany["

(***************************************************************************)
(* Use[T]() without configuration and without a registered entry: the      *)
(* descriptor built by walking the visible fields.                         *)
(***************************************************************************)
newModel(T) ==
    LET fs == VisibleFields(T)
        tagged == {i \in DOMAIN fs : fs[i].hasDb}
        key(i) == IF IsOneToMany(fs[i].Type) THEN fs[i].Name ELSE fs[i].db
        prim == {i \in tagged : ~IsOneToMany(fs[i].Type) /\ fs[i].db_primary}
        last(S) == CHOOSE i \in S : \A j \in S : j <= i
    IN [Fields |-> [c \in {key(i) : i \in tagged} |->
                        fs[last({i \in tagged : key(i) = c})]],
        PrimaryColumn |-> IF prim = {} THEN "" ELSE fs[last(prim)].db,
        PrimaryField |-> IF prim = {} THEN "" ELSE fs[last(prim)].Name,
        Table |-> ToLower(T),
        Type |-> T]

(* The descriptor of each struct type, as Use builds it on every call made *)
(* with no configuration and no registered entry.                         *)
builtModels == [T \in StructTypes |-> newModel(T)]

Use(T) == builtModels[T]

(***************************************************************************)
(* reflect.Value.IsZero of a struct field.  A relation wrapper is a record *)
(* [Valid, Row]: Row is the related row (a function of its field names),   *)
(* or NilRow for the nil pointer.                                          *)
(***************************************************************************)
NilRow == [nil |-> TRUE]

IsNilRow(r) == DOMAIN r = {"nil"}

IsZero(field, v) ==
    IF IsForeignKey(field.Type) THEN ~v.Valid /\ IsNilRow(v.Row)
    ELSE IF IsOneToMany(field.Type) THEN FALSE
    ELSE v = 0

(***************************************************************************)
(* Model.ToMap: the column map of a row.  The returned map m is a function *)
(* whose domain is the set of columns present.                             *)
(***************************************************************************)
(* A variant of ToMap that keeps a zero primary key. *)
ToMapSkipsRelationsOnly(model, row, column) == IsOneToMany(model.Fields[column].Type)

ToMapSkipsColumn(model, row, column) ==
    LET f == model.Fields[column]
    IN \/ IsZero(f, row[f.Name]) /\ f.db_primary
       \/ IsOneToMany(f.Type)

ToMapValue(model, row, column) ==
    LET f == model.Fields[column]
        v == row[f.Name]
    IN IF IsForeignKey(f.Type)
       THEN IF ~v.Valid THEN Nil ELSE v.Row[Use(f.To).PrimaryField]
       ELSE v

ToMapUnsupported(model, row, column) ==
    LET f == model.Fields[column]
    IN /\ ~ToMapSkipsColumn(model, row, column)
       /\ f.Type = "struct"

ToMap(model, row) ==
    LET cols == DOMAIN model.Fields
        bad == {c \in cols : ToMapUnsupported(model, row, c)}
        kept == {c \in cols : ~ToMapSkipsColumn(model, row, c)}
    IN IF bad # {}
       THEN [err |-> "rem: unsupported field type", m |-> <<>>]
       ELSE [err |-> NoErr, m |-> [c \in kept |-> ToMapValue(model, row, c)]]

(***************************************************************************)
(* Filter operands.  A Go interface{} operand is a record [kind, s, vals]: *)
(*   "string"  a plain column name s                                       *)
(*   "value"   a literal value vals[1], to be parameterized                *)
(*   "nil"     the Go nil                                                  *)
(*   "slice"   a []interface{} of literal values vals                      *)
(*   "sql"     rem.Sql(s, Param(vals[1]), ..., Param(vals[n])), which is a *)
(*             DialectStringerWithArgs                                     *)
(*   "column"  rem.Column(s), a DialectStringer                            *)
(*   "unsafe"  rem.Unsafe(s), a fmt.Stringer                               *)
(*   "other"   a value of any other type                                   *)
(***************************************************************************)
Operand(kind, s, vals) == [kind |-> kind, s |-> s, vals |-> vals]

NoOperand == Operand("nil", "", <<>>)

Str(s) == Operand("string", s, <<>>)

Val(v) == Operand("value", "", <<v>>)

Slice(vals) == Operand("slice", "", vals)

Sql(s, vals) == Operand("sql", s, vals)

filterOperators ==
    {"=", "!=", "<>", "<", ">", "<=", ">=", "LIKE", "NOT LIKE", "IN", "NOT IN",
     "IS", "IS NOT", "ALL", "<> ALL", "ANY", "<> ANY", "EXISTS", "NOT EXISTS",
     "OVERLAPS", "?", "?&", "?|", "@>", "<@"}

FilterClause(left, operator, right, rule) ==
    [Left |-> left, Operator |-> operator, Right |-> right, Rule |-> rule]

Rule(rule) == FilterClause(NoOperand, "", NoOperand, rule)

Q(column, operator, value) == FilterClause(column, operator, value, "WHERE")

Exists(value) == FilterClause(Str(""), "EXISTS", value, "WHERE")

NotExists(value) == FilterClause(Str(""), "NOT EXISTS", value, "WHERE")

(***************************************************************************)
(* The two dialects.  Identifiers of the model hold no quote character and *)
(* no dot, so QuoteIdentifier wraps the one segment in the quote character.*)
(***************************************************************************)
Dialects == {"pq", "sqlite"}

(* Stands for the backquote character (U+0060), which a TLA+ string cannot hold. *)
Backquote == "'"

PqParam(identifier) == "$" \o ToString(identifier)

SqliteParam(identifier) == "?"

PqQuoteIdentifier(identifier) == "\"" \o identifier \o "\""

SqliteQuoteIdentifier(identifier) == Backquote \o identifier \o Backquote

Param(dialect, i) == IF dialect = "pq" THEN PqParam(i) ELSE SqliteParam(i)

QuoteIdentifier(dialect, identifier) ==
    IF dialect = "pq" THEN PqQuoteIdentifier(identifier)
    ELSE SqliteQuoteIdentifier(identifier)

(* The placeholders Param(len(args)) of values appended to args one by one, *)
(* comma separated: the []interface{} case of rightString.                 *)
RECURSIVE sliceArgs(_, _, _, _)
sliceArgs(dialect, right, j, nargs) ==
    IF j > Len(right) THEN <<>>
    ELSE (IF j > 1 THEN <<",">> ELSE <<>>)
         \o <<Param(dialect, nargs + j)>>
         \o sliceArgs(dialect, right, j + 1, nargs)

(* SqlWithParams.StringWithArgs for Sql(s, Param(v1), ..., Param(vn)). *)
RECURSIVE sqlParams(_, _, _, _)
sqlParams(dialect, vals, j, nargs) ==
    IF j > Len(vals) THEN <<>>
    ELSE <<Param(dialect, nargs + j)>> \o sqlParams(dialect, vals, j + 1, nargs)

SqlWithParams_StringWithArgs(o, dialect, args) ==
    [sql |-> <<o.s>> \o sqlParams(dialect, o.vals, 1, Len(args)),
     args |-> args \o o.vals,
     err |-> NoErr]

leftString(filter, dialect, args) ==
    LET left == filter.Left
    IN CASE left.kind = "string" ->
              [args |-> args, sql |-> <<QuoteIdentifier(dialect, left.s)>>, err |-> NoErr]
         [] left.kind = "sql" ->
              SqlWithParams_StringWithArgs(left, dialect, args)
         [] left.kind = "column" ->
              [args |-> args, sql |-> <<QuoteIdentifier(dialect, left.s)>>, err |-> NoErr]
         [] left.kind = "unsafe" ->
              [args |-> args, sql |-> <<left.s>>, err |-> NoErr]
         [] OTHER ->
              [args |-> <<>>, sql |-> <<>>,
               err |-> "rem: unsupported type for left side of filter clause"]

rightString(filter, dialect, args) ==
    LET right == filter.Right
    IN CASE right.kind = "sql" ->
              SqlWithParams_StringWithArgs(right, dialect, args)
         [] right.kind = "column" ->
              [args |-> args, sql |-> <<QuoteIdentifier(dialect, right.s)>>, err |-> NoErr]
         [] right.kind = "unsafe" ->
              [args |-> args, sql |-> <<right.s>>, err |-> NoErr]
         [] right.kind = "nil" ->
              [args |-> args, sql |-> <<"NULL">>, err |-> NoErr]
         [] right.kind = "slice" ->
              [args |-> args \o right.vals,
               sql |-> sliceArgs(dialect, right.vals, 1, Len(args)),
               err |-> NoErr]
         [] OTHER ->
              [args |-> args \o right.vals,
               sql |-> <<Param(dialect, Len(args) + 1)>>,
               err |-> NoErr]

(* The WHERE case of FilterClause.StringWithArgs, given the rendered left   *)
(* side l and the rendered right side r.                                   *)
whereString(filter, l, r) ==
    LET op == filter.Operator
    IN IF l.err # NoErr THEN [sql |-> <<>>, args |-> <<>>, err |-> l.err]
       ELSE IF r.err # NoErr THEN [sql |-> <<>>, args |-> <<>>, err |-> r.err]
       ELSE IF op \in {"EXISTS", "NOT EXISTS"}
       THEN [sql |-> <<" ", op, " (">> \o r.sql \o <<")">>,
             args |-> r.args, err |-> NoErr]
       ELSE IF op \in {"IN", "NOT IN", "ALL", "<> ALL", "ANY", "<> ANY"}
       THEN [sql |-> <<" ">> \o l.sql \o <<" ", op, " (">> \o r.sql \o <<")">>,
             args |-> r.args, err |-> NoErr]
       ELSE IF op \in {"?&", "?|"} /\ filter.Right.kind \notin {"sql", "unsafe"}
       THEN [sql |-> <<" ">> \o l.sql \o <<" ", op, " array[">> \o r.sql \o <<"]">>,
             args |-> r.args, err |-> NoErr]
       ELSE [sql |-> <<" ">> \o l.sql \o <<" ", op, " ">> \o r.sql,
             args |-> r.args, err |-> NoErr]

FilterClause_StringWithArgs(filter, dialect, args) ==
    CASE filter.Rule = "(" -> [sql |-> <<" (">>, args |-> args, err |-> NoErr]
      [] filter.Rule = ")" -> [sql |-> <<" )">>, args |-> args, err |-> NoErr]
      [] filter.Rule = "AND" -> [sql |-> <<" AND">>, args |-> args, err |-> NoErr]
      [] filter.Rule = "OR" -> [sql |-> <<" OR">>, args |-> args, err |-> NoErr]
      [] filter.Rule = "WHERE" ->
           IF filter.Operator \notin filterOperators
           THEN [sql |-> <<>>, args |-> <<>>,
                 err |-> "rem: invalid operator on WHERE clause"]
           ELSE whereString(filter,
                            leftString(filter, dialect, args),
                            rightString(filter, dialect,
                                        leftString(filter, dialect, args).args))
      [] OTHER -> [sql |-> <<>>, args |-> args,
                   err |-> "rem: invalid rule on WHERE clause"]

(* The loop of buildWhere and buildJoins over a clause list: render each   *)
(* clause with the arguments so far, stop at the first error.              *)
RECURSIVE renderClauses(_, _, _, _)
RECURSIVE renderedClause(_, _, _, _, _)
renderClauses(dialect, clauses, i, acc) ==
    IF i > Len(clauses) THEN acc
    ELSE renderedClause(dialect, clauses, i, acc,
                        FilterClause_StringWithArgs(clauses[i], dialect, acc.args))

(* One turn of the loop, given the rendered clause w. *)
renderedClause(dialect, clauses, i, acc, w) ==
    IF w.err # NoErr THEN [sql |-> <<>>, args |-> <<>>, err |-> w.err]
    ELSE renderClauses(dialect, clauses, i + 1,
                       [sql |-> acc.sql \o w.sql, args |-> w.args, err |-> NoErr])

buildWhere(dialect, config, args) ==
    IF Len(config.Filters) > 0
    THEN renderClauses(dialect, config.Filters, 1,
                       [sql |-> <<" WHERE">>, args |-> args, err |-> NoErr])
    ELSE [sql |-> <<>>, args |-> args, err |-> NoErr]

RECURSIVE buildJoinsFrom(_, _, _, _)
RECURSIVE joinedOn(_, _, _, _)
buildJoinsFrom(dialect, joins, i, acc) ==
    IF i > Len(joins) THEN acc
    ELSE IF Len(joins[i].On) > 0
    THEN joinedOn(dialect, joins, i,
                  renderClauses(dialect, joins[i].On, 1,
                     [sql |-> acc.sql \o <<" ", joins[i].Direction, " JOIN ",
                                            QuoteIdentifier(dialect, joins[i].Table), " ON">>,
                      args |-> acc.args, err |-> NoErr]))
    ELSE buildJoinsFrom(dialect, joins, i + 1, acc)

(* One turn of the loop of buildJoins, given the rendered join on. *)
joinedOn(dialect, joins, i, on) ==
    IF on.err # NoErr THEN on
    ELSE buildJoinsFrom(dialect, joins, i + 1, on)

buildJoins(dialect, config, args) ==
    buildJoinsFrom(dialect, config.Joins, 1, [sql |-> <<>>, args |-> args, err |-> NoErr])

(***************************************************************************)
(* QueryConfig.  Limit and Offset are Nil when unset.  A Sort entry is a   *)
(* record [desc, col]: the string "-col" when desc, "col" otherwise.       *)
(* Context is TRUE when a context is set, Transaction is TRUE when a       *)
(* transaction handle is set.                                              *)
(***************************************************************************)
SortEntry(desc, col) == [desc |-> desc, col |-> col]

JoinClause(direction, on, table) == [Direction |-> direction, On |-> on, Table |-> table]

NoFields == <<>>

QueryConfig ==
    [Count |-> FALSE, Context |-> FALSE, FetchRelated |-> <<>>, Fields |-> NoFields,
     Filters |-> <<>>, Joins |-> <<>>, Limit |-> Nil, Offset |-> Nil, Params |-> <<>>,
     Selected |-> <<>>, Sort |-> <<>>, Table |-> "", Transaction |-> FALSE]

BuildResult(sql, args, err) == [sql |-> sql, args |-> args, err |-> err]

BuildError(err) == BuildResult(<<>>, <<>>, err)

(* The ORDER BY clause written by BuildSelect, and by the SQLite BuildDelete *)
(* and BuildUpdate.                                                          *)
RECURSIVE orderByFrom(_, _, _)
orderByFrom(dialect, sort, i) ==
    IF i > Len(sort) THEN <<>>
    ELSE (IF i > 1 THEN <<", ">> ELSE <<>>)
         \o <<QuoteIdentifier(dialect, sort[i].col),
              IF sort[i].desc THEN " DESC" ELSE " ASC">>
         \o orderByFrom(dialect, sort, i + 1)

orderBy(dialect, config) ==
    IF Len(config.Sort) > 0
    THEN <<" ORDER BY ">> \o orderByFrom(dialect, config.Sort, 1)
    ELSE <<>>

(* The projection of BuildSelect for explicit selected columns. *)
RECURSIVE selectedFrom(_, _, _)
selectedFrom(dialect, selected, i) ==
    IF i > Len(selected) THEN [sql |-> <<>>, err |-> NoErr]
    ELSE LET cv == selected[i]
             rest == selectedFrom(dialect, selected, i + 1)
             sep == IF i > 1 THEN <<",">> ELSE <<>>
         IN IF cv.kind \in {"string", "column"}
            THEN IF rest.err # NoErr THEN rest
                 ELSE [sql |-> sep \o <<QuoteIdentifier(dialect, cv.s)>> \o rest.sql,
                       err |-> NoErr]
            ELSE IF cv.kind = "unsafe"
            THEN IF rest.err # NoErr THEN rest
                 ELSE [sql |-> sep \o <<cv.s>> \o rest.sql, err |-> NoErr]
            ELSE [sql |-> <<>>, err |-> "rem: invalid column type"]

(* LIMIT and OFFSET as BuildSelect appends them to r = [sql, args, err]. *)
withLimit(dialect, config, r) ==
    IF config.Limit # Nil
    THEN BuildResult(r.sql \o <<" LIMIT ", Param(dialect, Len(r.args) + 1)>>,
                     Append(r.args, config.Limit), NoErr)
    ELSE r

withOffset(dialect, config, r) ==
    IF config.Offset # Nil
    THEN BuildResult(r.sql \o <<" OFFSET ", Param(dialect, Len(r.args) + 1)>>,
                     Append(r.args, config.Offset), NoErr)
    ELSE r

(* BuildSelect once the projection sel, the joins and the WHERE clause are *)
(* rendered.                                                               *)
selectStatement(dialect, config, sel, joins, where) ==
    LET head == IF config.Count THEN <<"SELECT count(*) FROM ">>
                ELSE IF Len(config.Selected) > 0
                THEN <<"SELECT ">> \o sel.sql \o <<" FROM ">>
                ELSE <<"SELECT * FROM ">>
    IN IF ~config.Count /\ Len(config.Selected) > 0 /\ sel.err # NoErr
       THEN BuildError(sel.err)
       ELSE IF joins.err # NoErr THEN BuildError(joins.err)
       ELSE IF where.err # NoErr THEN BuildError(where.err)
       ELSE withOffset(dialect, config,
              withLimit(dialect, config,
                BuildResult(head \o <<QuoteIdentifier(dialect, config.Table)>>
                              \o joins.sql \o where.sql \o orderBy(dialect, config),
                            where.args, NoErr)))

BuildSelect(dialect, config) ==
    selectStatement(dialect, config,
                    selectedFrom(dialect, config.Selected, 1),
                    buildJoins(dialect, config, config.Params),
                    buildWhere(dialect, config,
                               buildJoins(dialect, config, config.Params).args))

(* The PostgreSQL BuildDelete once the WHERE clause is rendered. *)
pqDeleteStatement(config, where) ==
    IF where.err # NoErr THEN BuildError(where.err)
    ELSE IF Len(config.Sort) > 0 THEN BuildError("rem: DELETE does not support ORDER BY")
    ELSE IF config.Limit # Nil THEN BuildError("rem: DELETE does not support LIMIT")
    ELSE IF config.Offset # Nil THEN BuildError("rem: DELETE does not support OFFSET")
    ELSE BuildResult(<<"DELETE FROM ", PqQuoteIdentifier(config.Table)>> \o where.sql,
                     where.args, NoErr)

PqBuildDelete(config) ==
    pqDeleteStatement(config, buildWhere("pq", config, config.Params))

(* The SQLite BuildDelete once the WHERE clause is rendered. *)
sqliteDeleteStatement(config, where) ==
    IF where.err # NoErr THEN BuildError(where.err)
    ELSE IF config.Offset # Nil THEN BuildError("rem: DELETE does not support OFFSET")
    ELSE withLimit("sqlite", config,
           BuildResult(<<"DELETE FROM ", SqliteQuoteIdentifier(config.Table)>>
                         \o where.sql \o orderBy("sqlite", config),
                       where.args, NoErr))

SqliteBuildDelete(config) ==
    sqliteDeleteStatement(config, buildWhere("sqlite", config, config.Params))

BuildDelete(dialect, config) ==
    IF dialect = "pq" THEN PqBuildDelete(config) ELSE SqliteBuildDelete(config)

(***************************************************************************)
(* BuildInsert (the same code in both dialects).  rowMap is a function     *)
(* whose domain is the set of keys of the Go map; columns is a sequence.   *)
(***************************************************************************)
RECURSIVE commaList(_, _)
commaList(tokens, i) ==
    IF i > Len(tokens) THEN <<>>
    ELSE (IF i > 1 THEN <<",">> ELSE <<>>) \o <<tokens[i]>> \o commaList(tokens, i + 1)

(* A variant of the INSERT loop's check that accepts unknown columns. *)
insertColumnErrAnyField(config, rowMap, column) ==
    IF column \in DOMAIN rowMap THEN NoErr ELSE "rem: invalid column on INSERT"

(* The INSERT loop's check of one listed column. *)
insertColumnErr(config, rowMap, column) ==
    IF column \in DOMAIN rowMap
    THEN IF column \notin DOMAIN config.Fields
         THEN "rem: field for column not found on model"
         ELSE NoErr
    ELSE "rem: invalid column on INSERT"

(* The error of the first listed column the INSERT loop rejects, or NoErr. *)
RECURSIVE insertColumnsErr(_, _, _, _)
insertColumnsErr(config, rowMap, columns, i) ==
    IF i > Len(columns) THEN NoErr
    ELSE IF insertColumnErr(config, rowMap, columns[i]) # NoErr
    THEN insertColumnErr(config, rowMap, columns[i])
    ELSE insertColumnsErr(config, rowMap, columns, i + 1)

BuildInsert(dialect, config, rowMap, columns) ==
    LET err == insertColumnsErr(config, rowMap, columns, 1)
        args == [i \in 1..Len(columns) |-> rowMap[columns[i]]]
        n == Cardinality(DOMAIN rowMap)
    IN IF err # NoErr THEN BuildError(err)
       ELSE BuildResult(
              <<"INSERT INTO ", QuoteIdentifier(dialect, config.Table), " (">>
                \o commaList([i \in 1..Len(columns) |->
                                 QuoteIdentifier(dialect, columns[i])], 1)
                \o <<") VALUES (">>
                \o commaList([i \in 1..n |-> Param(dialect, i)], 1)
                \o <<")">>,
              args, NoErr)

(***************************************************************************)
(* BuildUpdate.  The SET list is the same code in both dialects; the       *)
(* PostgreSQL dialect ends after WHERE, the SQLite dialect goes on with    *)
(* ORDER BY, LIMIT and the OFFSET error.                                   *)
(***************************************************************************)
RECURSIVE updateColumnsErr(_, _, _)
updateColumnsErr(rowMap, columns, i) ==
    IF i > Len(columns) THEN NoErr
    ELSE IF columns[i] \in DOMAIN rowMap
    THEN updateColumnsErr(rowMap, columns, i + 1)
    ELSE "rem: invalid column on UPDATE"

RECURSIVE updateSetList(_, _, _, _)
updateSetList(dialect, columns, i, nargs) ==
    IF i > Len(columns) THEN <<>>
    ELSE (IF i > 1 THEN <<",">> ELSE <<>>)
         \o <<QuoteIdentifier(dialect, columns[i]), " = ", Param(dialect, nargs + i)>>
         \o updateSetList(dialect, columns, i + 1, nargs)

updateSet(dialect, config, rowMap, columns) ==
    LET err == updateColumnsErr(rowMap, columns, 1)
    IN IF err # NoErr THEN BuildError(err)
       ELSE BuildResult(
              <<"UPDATE ", QuoteIdentifier(dialect, config.Table), " SET ">>
                \o updateSetList(dialect, columns, 1, Len(config.Params)),
              config.Params \o [i \in 1..Len(columns) |-> rowMap[columns[i]]],
              NoErr)

(* The PostgreSQL BuildUpdate once the SET list and the WHERE clause are *)
(* rendered.                                                             *)
pqUpdateStatement(config, set, where) ==
    IF set.err # NoErr THEN set
    ELSE IF where.err # NoErr THEN BuildError(where.err)
    ELSE BuildResult(set.sql \o where.sql, where.args, NoErr)

PqBuildUpdate(config, rowMap, columns) ==
    pqUpdateStatement(config,
                      updateSet("pq", config, rowMap, columns),
                      buildWhere("pq", config,
                                 updateSet("pq", config, rowMap, columns).args))

(* The SQLite BuildUpdate once the SET list and the WHERE clause are *)
(* rendered.                                                         *)
sqliteUpdateStatement(config, set, where) ==
    IF set.err # NoErr THEN set
    ELSE IF where.err # NoErr THEN BuildError(where.err)
    ELSE IF config.Offset # Nil THEN BuildError("rem: UPDATE does not support OFFSET")
    ELSE withLimit("sqlite", config,
           BuildResult(set.sql \o where.sql \o orderBy("sqlite", config),
                       where.args, NoErr))

SqliteBuildUpdate(config, rowMap, columns) ==
    sqliteUpdateStatement(config,
                          updateSet("sqlite", config, rowMap, columns),
                          buildWhere("sqlite", config,
                                     updateSet("sqlite", config, rowMap, columns).args))

BuildUpdate(dialect, config, rowMap, columns) ==
    IF dialect = "pq" THEN PqBuildUpdate(config, rowMap, columns)
    ELSE SqliteBuildUpdate(config, rowMap, columns)

(***************************************************************************)
(* ColumnType and BuildTableCreate.  A column type is [sql, err], sql the  *)
(* tokens columnType, columnPrimary, columnNull.  The PostgreSQL dialect   *)
(* reads the tag primary_key, the SQLite dialect the tag db_primary.       *)
(***************************************************************************)
ColumnTypeResult(sql, err) == [sql |-> sql, err |-> err]

ErrUnsupportedColumnType == "rem: Unsupported column type"

(* The tags DEFAULT and UNIQUE appended to columnNull. *)
columnSuffix(field) ==
    (IF TagGet(field, "db_default") # ""
     THEN <<" DEFAULT ", TagGet(field, "db_default")>> ELSE <<>>)
    \o (IF TagGet(field, "db_unique") = "true" THEN <<" UNIQUE">> ELSE <<>>)

(* REFERENCES ... ON UPDATE ... ON DELETE of a foreign key column. *)
columnReferences(dialect, field) ==
    <<" REFERENCES ", QuoteIdentifier(dialect, Use(field.To).Table), " (",
      QuoteIdentifier(dialect, Use(field.To).PrimaryColumn), ")">>
    \o (IF TagGet(field, "db_on_update") # ""
        THEN <<" ON UPDATE ", TagGet(field, "db_on_update")>> ELSE <<>>)
    \o (IF TagGet(field, "db_on_delete") # ""
        THEN <<" ON DELETE ", TagGet(field, "db_on_delete")>> ELSE <<>>)

columnNullOf(field) ==
    IF field.Type = "rem.NullForeignKey[" THEN " NULL" ELSE " NOT NULL"

(* The serial type of an integer primary key, "" for any other field. *)
pqSerialType(field) ==
    IF ~field.primary_key THEN ""
    ELSE IF field.Type \in {"int", "int64"} THEN "BIGSERIAL"
    ELSE IF field.Type = "int32" THEN "SERIAL"
    ELSE IF field.Type \in {"int8", "int16"} THEN "SMALLSERIAL"
    ELSE ""

pqScalarType(field) ==
    IF field.Type = "bool" THEN "BOOLEAN"
    ELSE IF field.Type = "float64" THEN "DOUBLE PRECISION"
    ELSE IF field.Type \in {"int", "int64"} THEN "BIGINT"
    ELSE IF field.Type = "int32" THEN "INTEGER"
    ELSE IF field.Type \in {"int8", "int16"} THEN "SMALLINT"
    ELSE IF field.Type = "string"
    THEN IF TagGet(field, "db_max_length") # ""
         THEN "VARCHAR(" \o TagGet(field, "db_max_length") \o ")" ELSE "TEXT"
    ELSE IF field.Type = "time.Time"
    THEN IF TagGet(field, "db_time_zone") = "true"
         THEN "TIMESTAMP WITH TIME ZONE" ELSE "TIMESTAMP WITHOUT TIME ZONE"
    ELSE ""

(* strings.Replace of the serial types by their integer types. *)
pqReferencedType(type) ==
    IF type = "BIGSERIAL" THEN "BIGINT"
    ELSE IF type = "SMALLSERIAL" THEN "SMALLINT"
    ELSE IF type = "SERIAL" THEN "INTEGER"
    ELSE type

(* The foreign key case of ColumnType, given the column type sub of the   *)
(* related model's primary column: its first word is the column's type.   *)
pqForeignKeyType(field, primary, sub) ==
    IF sub.err # NoErr THEN ColumnTypeResult(<<>>, sub.err)
    ELSE ColumnTypeResult(<<pqReferencedType(sub.sql[1]), primary, columnNullOf(field)>>
                            \o columnReferences("pq", field) \o columnSuffix(field),
                          NoErr)

RECURSIVE PqColumnType(_)
PqColumnType(field) ==
    IF TagGet(field, "db_type") # ""
    THEN ColumnTypeResult(<<TagGet(field, "db_type")>>, NoErr)
    ELSE LET primary == IF field.primary_key THEN " PRIMARY KEY" ELSE ""
             type == IF pqSerialType(field) # "" THEN pqSerialType(field)
                     ELSE pqScalarType(field)
         IN IF type # ""
            THEN ColumnTypeResult(<<type, primary, " NOT NULL">> \o columnSuffix(field),
                                  NoErr)
            ELSE IF IsForeignKey(field.Type)
            THEN pqForeignKeyType(field, primary,
                     PqColumnType(Use(field.To).Fields[Use(field.To).PrimaryColumn]))
            ELSE ColumnTypeResult(<<>>, ErrUnsupportedColumnType)

sqliteScalarType(field) ==
    IF field.Type = "bool" THEN "BOOLEAN"
    ELSE IF field.Type \in {"int", "int8", "int16", "int32", "int64"} THEN "INTEGER"
    ELSE IF field.Type \in {"float32", "float64"} THEN "REAL"
    ELSE IF field.Type = "string" THEN "TEXT"
    ELSE IF field.Type = "time.Time" THEN "DATETIME"
    ELSE ""

sqliteForeignKeyType(field, primary, sub) ==
    IF sub.err # NoErr THEN ColumnTypeResult(<<>>, sub.err)
    ELSE ColumnTypeResult(<<sub.sql[1], primary, columnNullOf(field)>>
                            \o columnReferences("sqlite", field) \o columnSuffix(field),
                          NoErr)

RECURSIVE SqliteColumnType(_)
SqliteColumnType(field) ==
    IF TagGet(field, "db_type") # ""
    THEN ColumnTypeResult(<<TagGet(field, "db_type")>>, NoErr)
    ELSE LET primary == IF field.db_primary THEN " PRIMARY KEY" ELSE ""
         IN IF sqliteScalarType(field) # ""
            THEN ColumnTypeResult(<<sqliteScalarType(field), primary, " NOT NULL">>
                                    \o columnSuffix(field), NoErr)
            ELSE IF IsForeignKey(field.Type)
            THEN sqliteForeignKeyType(field, primary,
                     SqliteColumnType(Use(field.To).Fields[Use(field.To).PrimaryColumn]))
            ELSE ColumnTypeResult(<<>>, ErrUnsupportedColumnType)

ColumnType(dialect, field) ==
    IF dialect = "pq" THEN PqColumnType(field) ELSE SqliteColumnType(field)

(* sort.Strings on the column and field names of the model structs. *)
sortedNames ==
    <<"Accounts", "created_at", "direction", "group_id", "id", "migration_type", "name">>

sortStrings(S) == SelectSeq(sortedNames, LAMBDA n : n \in S)

(* Column i followed by the columns rest after it. *)
nextColumns(dialect, fieldNames, i, type, rest) ==
    IF rest.err # NoErr THEN rest
    ELSE ColumnTypeResult((IF i > 1 THEN <<",">> ELSE <<>>)
                            \o <<"\n\t", QuoteIdentifier(dialect, fieldNames[i]), " ">>
                            \o type.sql \o rest.sql,
                          NoErr)

(* The column definitions of BuildTableCreate from column i on. *)
RECURSIVE tableColumns(_, _, _, _)
RECURSIVE tableColumn(_, _, _, _, _)
tableColumns(dialect, config, fieldNames, i) ==
    IF i > Len(fieldNames) THEN ColumnTypeResult(<<>>, NoErr)
    ELSE tableColumn(dialect, config, fieldNames, i,
                     ColumnType(dialect, config.Fields[fieldNames[i]]))

(* One turn of the loop of BuildTableCreate, given the type of column i. *)
tableColumn(dialect, config, fieldNames, i, type) ==
    IF type.err # NoErr THEN type
    ELSE nextColumns(dialect, fieldNames, i, type,
                     tableColumns(dialect, config, fieldNames, i + 1))

(* BuildTableCreate once the column definitions are rendered. *)
tableCreateStatement(dialect, config, tableCreateConfig, columns) ==
    IF columns.err # NoErr THEN BuildError(columns.err)
    ELSE BuildResult(<<"CREATE TABLE ">>
                       \o (IF tableCreateConfig.IfNotExists
                           THEN <<"IF NOT EXISTS ">> ELSE <<>>)
                       \o <<QuoteIdentifier(dialect, config.Table), " (">>
                       \o columns.sql \o <<"\n)">>,
                     <<>>, NoErr)

BuildTableCreate(dialect, config, tableCreateConfig) ==
    tableCreateStatement(dialect, config, tableCreateConfig,
                         tableColumns(dialect, config, sortStrings(DOMAIN config.Fields), 1))

(***************************************************************************)
(* Query.Filter on the filter list of a configuration.                     *)
(***************************************************************************)
Filter(config, column, operator, value) ==
    [config EXCEPT !.Filters =
        (IF Len(config.Filters) > 0
         THEN Append(config.Filters, Rule("AND")) ELSE config.Filters)
        \o <<Q(column, operator, value)>>]

(* Query.configure: table and column metadata of the model descriptor. *)
configure(config, model) ==
    [config EXCEPT !.Fields = model.Fields, !.Table = model.Table]

(***************************************************************************)
(* State.                                                                  *)
(*   call, built      a direct call of a dialect's Build method: the       *)
(*                    inputs, and the dialect called with its result       *)
(*   defaultDialect   the process-wide default dialect ("" when unset)     *)
(*   query            the Query under construction: its Config, its        *)
(*                    dialect ("" when unset) and its model type           *)
(*   explicit         history: the argument of the query's last Dialect    *)
(*                    call ("" when Dialect was never called)              *)
(*   sent             the statements the last execution method sent, if no *)
(*                    builder method was called since                      *)
(*   ret              the outcome of that execution method                 *)
(*   steps            the number of builder and SetDialect calls so far    *)
(***************************************************************************)
VARIABLES call, built, defaultDialect, query, explicit, sent, ret, steps,
          migrationlogs, run,
          combined, nesting,
          registeredModels, heap, used,
          goroutines, accesses,
          cursor, prefetch,
          declared

vars == <<call, built, defaultDialect, query, explicit, sent, ret, steps,
          migrationlogs, run,
          combined, nesting,
          registeredModels, heap, used,
          goroutines, accesses,
          cursor, prefetch,
          declared>>

buildVars == <<call, built>>

execVars == <<defaultDialect, query, explicit, sent, ret, steps>>

(* The database table of the migration log and the migration runner. *)
migrateVars == <<migrationlogs, run>>

filterVars == <<combined, nesting>>

registerVars == <<registeredModels, heap, used>>

shareVars == <<goroutines, accesses>>

sliceVars == <<cursor, prefetch>>

orderVars == <<declared>>

(* The variables that the calls of the query builder leave alone. *)
queryIdle == <<migrateVars, filterVars, registerVars, shareVars, sliceVars, orderVars>>

(* No call of And or Or yet; no token of the query's lists yet. *)
NoCombined == [op |-> "", clauses |-> <<>>, filter |-> <<>>, nest |-> <<>>, calls |-> 0]

NoNesting == [filters |-> <<>>, joins |-> <<>>]

(* The registry before any Register; no call of Register or Use yet. *)
NoModels == [key \in {} |-> 0]

NoUse ==
    [op |-> "", T |-> "", configs |-> <<>>, got |-> 0, models |-> 0,
     registered |-> NoModels, log |-> {}, calls |-> 0]

(* No goroutine has been started. *)
NoGoroutines == <<>>

(* No builder method has been called. *)
NoDeclared ==
    [filters |-> <<>>, joins |-> <<>>, sort |-> <<>>, selected |-> <<>>,
     limit |-> Nil, offset |-> Nil]

(* No call of All or AllToMap is reading rows. *)
NoCursor ==
    [op |-> "", pc |-> "idle", context |-> FALSE, fetchRelated |-> FALSE, result |-> <<>>,
     rows |-> <<>>, closed |-> FALSE, done |-> FALSE, checks |-> <<>>,
     err |-> NoErr, returned |-> <<>>, calls |-> 0]

(* Query.slice has not been given rows. *)
NoPrefetch ==
    [pc |-> "idle", T |-> "", column |-> "", rows |-> <<>>, batched |-> <<>>,
     queried |-> FALSE, panic |-> FALSE, out |-> <<>>]

(* The migration log before migrateSetup has created it. *)
NoTable == [exists |-> FALSE, primary |-> {}, rows |-> <<>>]

(* No migration runner has been called.  The fields prev, applied, failed, *)
(* unlogged and misread are history of the calls so far:                   *)
(*   prev      op and err of the call before the current one               *)
(*   applied   the indexes whose last step that returned nil is Up         *)
(*   failed    a step or a log insert has failed                           *)
(*   unlogged  a step returned nil and the insert of its log row failed    *)
(*   misread   migrateSetup got an entry other than the one inserted last  *)
NoRun ==
    [op |-> "", pc |-> "idle", migrations |-> <<>>, latestIndex |-> Nil, i |-> 0,
     logs |-> <<>>, err |-> NoErr, called |-> <<>>, base |-> 0, columns |-> {},
     read |-> <<>>, runs |-> 0, prev |-> [op |-> "", err |-> NoErr], applied |-> {},
     failed |-> FALSE, unlogged |-> FALSE, misread |-> FALSE]

(***************************************************************************)
(* Inputs of the direct Build calls.                                       *)
(***************************************************************************)
Leaves ==
    { Q(Str("id"), "=", Val(1)),
      Q(Str("id"), "IN", Slice(<<10, 20>>)),
      Q(Str("name"), "IS", NoOperand),
      Exists(Sql("SELECT 1 WHERE x = ", <<3>>)),
      Q(Str("id"), "~~", Val(1)) }

RECURSIVE FilterConfigs(_)
FilterConfigs(n) ==
    IF n = 0 THEN {QueryConfig}
    ELSE LET prev == FilterConfigs(n - 1)
         IN prev \cup {Filter(c, l.Left, l.Operator, l.Right) : c \in prev, l \in Leaves}

SortInputs == {<<>>, <<SortEntry(TRUE, "id")>>}

LimitInputs == {Nil, 10}

OffsetInputs == {Nil, 20}

SelectedInputs == {<<>>, <<Str("id")>>, <<Str("id"), Val(3)>>}

JoinInputs ==
    {<<>>, <<JoinClause("INNER", <<Q(Str("groups.id"), "=", Val(5))>>, "groups")>>}

ColumnNames == {"id", "name", "bogus"}

RowMapInputs ==
    {[c \in S |-> IF c = "id" THEN v ELSE IF c = "name" THEN 7 ELSE 9] :
        S \in SUBSET ColumnNames, v \in {0, 1}}

RECURSIVE ColumnLists(_)
ColumnLists(n) ==
    IF n = 0 THEN {<<>>}
    ELSE LET prev == ColumnLists(n - 1)
         IN prev \cup {Append(cs, c) : cs \in prev, c \in ColumnNames}

Configured(config) == configure(config, Use("Accounts"))

Call(op, config, rowMap, columns) ==
    [op |-> op, config |-> config, rowMap |-> rowMap, columns |-> columns]

NoRowMap == <<>>

SelectCalls ==
    {Call("select",
          [c EXCEPT !.Sort = s, !.Limit = l, !.Offset = o,
                    !.Selected = sel, !.Count = cnt, !.Joins = j],
          NoRowMap, <<>>) :
        c \in {Configured(f) : f \in FilterConfigs(MaxFilters)},
        s \in SortInputs, l \in LimitInputs, o \in OffsetInputs,
        sel \in SelectedInputs, cnt \in BOOLEAN, j \in JoinInputs}

DeleteCalls ==
    {Call("delete", [c EXCEPT !.Sort = s, !.Limit = l, !.Offset = o], NoRowMap, <<>>) :
        c \in {Configured(f) : f \in FilterConfigs(MaxFilters)},
        s \in SortInputs, l \in LimitInputs, o \in OffsetInputs}

InsertCalls ==
    {Call("insert", Configured(QueryConfig), m, cs) :
        m \in RowMapInputs, cs \in ColumnLists(MaxCols)}

UpdateCalls ==
    {Call("update", [c EXCEPT !.Sort = s, !.Limit = l, !.Offset = o], m, cs) :
        c \in {Configured(f) : f \in FilterConfigs(1)},
        s \in SortInputs, l \in LimitInputs, o \in OffsetInputs,
        m \in RowMapInputs, cs \in ColumnLists(MaxCols)}

NotBuilt == [dialect |-> "", r |-> BuildError(NoErr)]

(***************************************************************************)
(* Initial state of the query side: a fresh Query of the Accounts model,   *)
(* no default dialect, nothing sent.                                       *)
(***************************************************************************)
NewQuery(T) == [Config |-> QueryConfig, dialect |-> "", Model |-> T, Rows |-> 0]

NoInput ==
    [row |-> NilRow, data |-> <<>>, columns |-> <<>>,
     result |-> <<>>, dbErr |-> FALSE, done |-> FALSE]

Ret(op, err, rows, in) == [op |-> op, err |-> err, rows |-> rows, in |-> in]

NoRet == Ret("", NoErr, <<>>, NoInput)

BuildInit ==
    /\ call \in SelectCalls \cup DeleteCalls \cup InsertCalls \cup UpdateCalls
    /\ built = NotBuilt
    /\ defaultDialect = ""
    /\ query = NewQuery("Accounts")
    /\ explicit = ""
    /\ sent = <<>>
    /\ ret = NoRet
    /\ steps = 0
    /\ migrationlogs = NoTable
    /\ run = NoRun
    /\ combined = NoCombined
    /\ nesting = NoNesting
    /\ registeredModels = NoModels
    /\ heap = <<>>
    /\ used = NoUse
    /\ goroutines = NoGoroutines
    /\ accesses = {}
    /\ declared = NoDeclared
    /\ cursor = NoCursor
    /\ prefetch = NoPrefetch

(***************************************************************************)
(* Direct calls of the dialects' Build methods on the drawn inputs.        *)
(***************************************************************************)
CallBuildSelect(d) ==
    /\ call.op = "select" /\ built = NotBuilt
    /\ built' = [dialect |-> d, r |-> BuildSelect(d, call.config)]
    /\ UNCHANGED <<call, execVars, queryIdle>>

CallBuildDelete(d) ==
    /\ call.op = "delete" /\ built = NotBuilt
    /\ built' = [dialect |-> d, r |-> BuildDelete(d, call.config)]
    /\ UNCHANGED <<call, execVars, queryIdle>>

CallBuildInsert(d) ==
    /\ call.op = "insert" /\ built = NotBuilt
    /\ built' = [dialect |-> d, r |-> BuildInsert(d, call.config, call.rowMap, call.columns)]
    /\ UNCHANGED <<call, execVars, queryIdle>>

CallBuildUpdate(d) ==
    /\ call.op = "update" /\ built = NotBuilt
    /\ built' = [dialect |-> d, r |-> BuildUpdate(d, call.config, call.rowMap, call.columns)]
    /\ UNCHANGED <<call, execVars, queryIdle>>

BuildNext ==
    \E d \in Dialects :
        \/ CallBuildSelect(d)
        \/ CallBuildDelete(d)
        \/ CallBuildInsert(d)
        \/ CallBuildUpdate(d)

SpecBuild == BuildInit /\ [][BuildNext]_vars

(***************************************************************************)
(* Rows.  A struct value of model type T is a function of its field names. *)
(***************************************************************************)
FieldNames(T) == {VisibleFields(T)[i].Name : i \in DOMAIN VisibleFields(T)}

structFields ==
    [T \in StructTypes |->
        LET fs == VisibleFields(T)
        IN [name \in FieldNames(T) |-> fs[CHOOSE i \in DOMAIN fs : fs[i].Name = name]]]

FieldByName(T, name) == structFields[T][name]

ZeroValue(f) ==
    IF IsForeignKey(f.Type) THEN [Valid |-> FALSE, Row |-> NilRow]
    ELSE IF IsOneToMany(f.Type) THEN [RelatedColumn |-> "", RowPk |-> Nil, Rows |-> <<>>]
    ELSE 0

zeroRows == [T \in StructTypes |-> [n \in FieldNames(T) |-> ZeroValue(FieldByName(T, n))]]

ZeroRow(T) == zeroRows[T]

(***************************************************************************)
(* Model.ScanMap: the struct of a column map returned by the database.  A  *)
(* NULL column leaves the field at its zero value; a foreign-key column    *)
(* sets the primary key of a zero related row and marks the wrapper valid; *)
(* every one-to-many field gets its related column and the row's key.      *)
(***************************************************************************)
ScanMap(T, data) ==
    LET model == Use(T)
        scanned(f) == f.hasDb /\ ~IsOneToMany(f.Type) /\ f.db \in DOMAIN data
                      /\ data[f.db] # Nil
        value(f) ==
            IF IsOneToMany(f.Type)
            THEN [RelatedColumn |-> f.db,
                  RowPk |-> LET pf == FieldByName(T, model.PrimaryField)
                            IN IF scanned(pf) THEN data[pf.db] ELSE 0,
                  Rows |-> <<>>]
            ELSE IF scanned(f)
            THEN IF IsForeignKey(f.Type)
                 THEN [Valid |-> TRUE,
                       Row |-> [ZeroRow(f.To) EXCEPT ![Use(f.To).PrimaryField] = data[f.db]]]
                 ELSE data[f.db]
            ELSE ZeroValue(f)
    IN [n \in DOMAIN structFields[T] |-> value(FieldByName(T, n))]

(***************************************************************************)
(* Query.detectDialect, Query.dbQuery and Query.dbExec.  A statement sent  *)
(* records the handle it went through (conn), whether the context-aware    *)
(* call was used (ctx), the database/sql method, the dialect that compiled *)
(* it, and the Query that sent it (related: "" for the caller's Query, the *)
(* relation's name for the Query that Query.slice builds for a relation).  *)
(***************************************************************************)
detectDialectPanics(q, dflt) == q.dialect = "" /\ dflt = ""

(* A variant of detectDialect in which the default replaces the override. *)
detectDialectFromDefault(q, dflt) ==
    IF dflt # "" THEN [q EXCEPT !.dialect = dflt] ELSE q

detectDialect(q, dflt) ==
    IF q.dialect = "" /\ dflt # "" THEN [q EXCEPT !.dialect = dflt] ELSE q

dbCall(q, method, b, related) ==
    [conn |-> IF q.Config.Transaction THEN "tx" ELSE "db",
     ctx |-> q.Config.Context,
     method |-> method, dialect |-> q.dialect, sql |-> b.sql, args |-> b.args, related |-> related,
     cursor |-> "none"]

(* The *sql.Rows of a statement: "none" before the database has answered  *)
(* and when it answered with an error, then "open", then "closed".         *)
rowsOpened(stmt) == [stmt EXCEPT !.cursor = "open"]

(* Rows.Close() *)
rowsClose(stmt) == [stmt EXCEPT !.cursor = "closed"]

(* Rows.Next(): the cursor closes itself when there is no further row. *)
rowsNext(stmt, more) == IF more THEN stmt ELSE rowsClose(stmt)

dbQuery(q, b, related) == dbCall(q, "Query", b, related)

dbExec(q, b, related) == dbCall(q, "Exec", b, related)

(* A variant that does not keep the cursor in the Query. *)
withoutRows(q) == q

(* query.Rows = rows: the Query holds the cursor of its last statement.    *)
(* Rows counts the cursors the Query has held, 0 standing for nil.         *)
withRows(q) == [q EXCEPT !.Rows = @ + 1]

(* detectDialect followed by configure, as every execution method starts. *)
Start(q, dflt) ==
    LET d == detectDialect(q, dflt)
    IN [d EXCEPT !.Config = configure(d.Config, Use(d.Model))]

Outcome(q, s, r) == [q |-> q, sent |-> s, ret |-> r]

(***************************************************************************)
(* Query.slice: the identifiers collected for the requested relations and  *)
(* the follow-up query of each relation.                                   *)
(***************************************************************************)
relationKind(T, name) ==
    IF name \notin DOMAIN structFields[T] THEN "none"
    ELSE IF IsForeignKey(FieldByName(T, name).Type) THEN "fk"
    ELSE IF IsOneToMany(FieldByName(T, name).Type) THEN "otm"
    ELSE "other"

RECURSIVE fetchRelatedErr(_, _, _)
fetchRelatedErr(T, names, i) ==
    IF i > Len(names) THEN NoErr
    ELSE IF relationKind(T, names[i]) = "none"
    THEN "rem: invalid field for fetching related. Field does not exist on model"
    ELSE IF relationKind(T, names[i]) = "other"
    THEN "rem: invalid field for fetching related. Field must be a relation"
    ELSE fetchRelatedErr(T, names, i + 1)

Occurrences(names, name) == Cardinality({i \in DOMAIN names : names[i] = name})

RECURSIVE Repeat(_, _)
Repeat(s, n) == IF n = 0 THEN <<>> ELSE s \o Repeat(s, n - 1)

(* The values one row appends to RelatedValues of relation `name`. *)
rowRelatedValues(T, row, names, name) ==
    LET f == FieldByName(T, name)
        v == IF IsForeignKey(f.Type)
             THEN IF row[name].Valid
                  THEN <<row[name].Row[Use(f.To).PrimaryField]>> ELSE <<>>
             ELSE <<row[Use(T).PrimaryField]>>
    IN Repeat(v, Occurrences(names, name))

RECURSIVE relatedValues(_, _, _, _, _)
relatedValues(T, rows, names, name, k) ==
    IF k > Len(rows) THEN <<>>
    ELSE rowRelatedValues(T, rows[k], names, name)
         \o relatedValues(T, rows, names, name, k + 1)

relatedPk(T, rows, names, name) ==
    LET f == FieldByName(T, name)
        to == Use(f.To)
    IN IF IsForeignKey(f.Type)
       THEN [RelatedColumn |-> to.PrimaryColumn,
             RelatedField |-> to.PrimaryField,
             RelatedValues |-> relatedValues(T, rows, names, name, 1)]
       ELSE [RelatedColumn |-> f.db,
             RelatedField |-> to.Fields[CHOOSE c \in DOMAIN to.Fields :
                                            to.Fields[c].db = f.db].Name,
             RelatedValues |-> relatedValues(T, rows, names, name, 1)]

(* fk.Query().Filter(RelatedColumn, "IN", RelatedValues): a new Query of   *)
(* the related model, holding the one filter.                              *)
(* A variant in which the follow-up query is limited to one row. *)
relatedQueryLimited(T, name, rpk) ==
    LET q == NewQuery(FieldByName(T, name).To)
    IN [q EXCEPT !.Config = [Filter(q.Config, Str(rpk.RelatedColumn), "IN",
                                    Slice(rpk.RelatedValues)) EXCEPT !.Limit = 1]]

relatedQuery(T, name, rpk) ==
    LET q == NewQuery(FieldByName(T, name).To)
    IN [q EXCEPT !.Config = Filter(q.Config, Str(rpk.RelatedColumn), "IN",
                                   Slice(rpk.RelatedValues))]

(* The statement that All sends for the related Query. *)
relatedStatement(T, rows, names, name, dflt) ==
    LET q == Start(relatedQuery(T, name, relatedPk(T, rows, names, name)), dflt)
    IN rowsClose(rowsOpened(dbQuery(q, BuildSelect(q.dialect, q.Config), name)))

(* A variant of the prefetch that queries each relation once per row. *)
followUpsPerRow(T, rows, names, order, dflt) ==
    [i \in 1..(Len(order) * Len(rows)) |->
        relatedStatement(T, rows, names, order[((i - 1) % Len(order)) + 1], dflt)]

(* The statements of the related Queries, one for each entry of relatedPks *)
(* that holds a value, in the order the map is ranged over.                *)
followUps(T, rows, names, order, dflt) ==
    [i \in DOMAIN order |-> relatedStatement(T, rows, names, order[i], dflt)]

Perms(S) ==
    {p \in [1..Cardinality(S) -> S] : \A i, j \in DOMAIN p : p[i] = p[j] => i = j}

(* The relation names that have an entry of relatedPks with a value. *)
prefetched(T, rows, names) ==
    {names[i] : i \in {j \in DOMAIN names :
                          Len(relatedValues(T, rows, names, names[j], 1)) > 0}}

(***************************************************************************)
(* Inputs of the execution methods: what the database returns and what the *)
(* caller passes.                                                          *)
(***************************************************************************)
rowData(T, i) ==
    IF T = "Accounts"
    THEN {[id |-> i, name |-> 7, group_id |-> g] : g \in {Nil, 10, 20}}
    ELSE {[id |-> 10 * i, name |-> 7]}

RECURSIVE resultSets(_, _)
resultSets(T, n) ==
    IF n = 0 THEN {<<>>}
    ELSE LET prev == resultSets(T, n - 1)
         IN prev \cup {Append(rs, d) : rs \in {r \in prev : Len(r) = n - 1},
                                       d \in rowData(T, n)}

resultSetsUpTo == [T \in ModelTypes |-> [n \in 0..MaxRows |-> resultSets(T, n)]]

ResultSets(T, n) == resultSetsUpTo[T][n]

insertRows(T) ==
    IF T = "Accounts"
    THEN {[ZeroRow(T) EXCEPT !.Id = i, !.Name = 7, !.Group = g] :
             i \in {0, 1},
             g \in {ZeroValue(FieldByName(T, "Group")),
                    [Valid |-> TRUE, Row |-> [ZeroRow("Groups") EXCEPT !.Id = 10]]}}
    ELSE {[ZeroRow(T) EXCEPT !.Id = i, !.Name = 7] : i \in {0, 10}}

insertRowsOf == [T \in ModelTypes |-> insertRows(T)]

InsertRows(T) == insertRowsOf[T]

EmptyMap == <<>>

DataInputs ==
    {EmptyMap, [name |-> 7], [id |-> 0, name |-> 7], [bogus |-> 9], [name |-> 7, bogus |-> 9]}

UpdateColumnInputs == {<<>>, <<"name">>, <<"bogus">>, <<"id">>}

(***************************************************************************)
(* The execution methods of Query.  Each operator gives the outcomes of    *)
(* one call: the Query afterwards, the statements sent and what the call   *)
(* returned.  `in` holds the caller's arguments and the database's answer: *)
(* result (the rows returned), dbErr (the driver returned an error) and    *)
(* done (the Query's context is done when the method looks at it).         *)
(***************************************************************************)
In(row, data, columns, result, dbErr, done) ==
    [row |-> row, data |-> data, columns |-> columns,
     result |-> result, dbErr |-> dbErr, done |-> done]

ErrNoRows == "sql: no rows in result set"

ErrContext == "context canceled"

ErrDriver == "driver: error"

ErrPanic == "panic: rem: no dialect registered"

ErrNoColumns == "rem: no columns specified for update"

Panic(q, op, in) == Outcome(q, <<>>, Ret(op, ErrPanic, <<>>, in))

contextDone(q, in) == q.Config.Context /\ in.done

(* Query.slice once the rows of the primary statement are scanned. *)
sliceRows(q, dflt, stmt, in, rows) ==
    LET T == q.Model
        names == q.Config.FetchRelated
        err == IF Len(rows) > 0 THEN fetchRelatedErr(T, names, 1) ELSE NoErr
    IN IF err # NoErr
       THEN {Outcome(q, <<rowsClose(stmt)>>, Ret("All", err, <<>>, in))}
       ELSE UNION {
           IF fetched # {} /\ dflt = ""
           THEN {Outcome(q, <<rowsClose(stmt)>>, Ret("All", ErrPanic, <<>>, in))}
           ELSE {Outcome(q,
                         <<rowsClose(stmt)>> \o followUps(T, rows, names, order, dflt),
                         IF contextDone(q, in)
                         THEN Ret("All", ErrContext, <<>>, in)
                         ELSE Ret("All", NoErr, rows, in)) :
                    order \in Perms(fetched)} :
           fetched \in {prefetched(T, rows, names)}}

(* Query.slice, given the rows of the primary statement. *)
slice(q, dflt, stmt, in) ==
    UNION {sliceRows(q, dflt, stmt, in, rows) :
              rows \in {[i \in DOMAIN in.result |-> ScanMap(q.Model, in.result[i])]}}

AllOutcomes(q, dflt, in) ==
    IF detectDialectPanics(q, dflt) THEN {Panic(q, "All", in)}
    ELSE UNION {UNION {
        (LET stmt == dbQuery(q1, b, "")
         IN IF b.err # NoErr THEN {Outcome(q1, <<>>, Ret("All", b.err, <<>>, in))}
            ELSE IF in.dbErr THEN {Outcome(q1, <<stmt>>, Ret("All", ErrDriver, <<>>, in))}
            ELSE slice(withRows(q1), dflt, rowsOpened(stmt), in)) :
        b \in {BuildSelect(q1.dialect, q1.Config)}} :
        q1 \in {Start(q, dflt)}}

AllToMapOutcomes(q, dflt, in) ==
    IF detectDialectPanics(q, dflt) THEN {Panic(q, "AllToMap", in)}
    ELSE UNION {UNION {
        (LET stmt == dbQuery(q1, b, "")
         IN IF b.err # NoErr THEN {Outcome(q1, <<>>, Ret("AllToMap", b.err, <<>>, in))}
            ELSE IF in.dbErr
            THEN {Outcome(q1, <<stmt>>, Ret("AllToMap", ErrDriver, <<>>, in))}
            ELSE IF contextDone(q1, in)
            THEN {Outcome(withRows(q1), <<rowsClose(rowsOpened(stmt))>>,
                          Ret("AllToMap", ErrContext, <<>>, in))}
            ELSE {Outcome(withRows(q1), <<rowsClose(rowsOpened(stmt))>>,
                          Ret("AllToMap", NoErr, in.result, in))}) :
        b \in {BuildSelect(q1.dialect, q1.Config)}} :
        q1 \in {Start(q, dflt)}}

(* A variant of First that keeps the limit of the builder. *)
keepLimit(q) == q

(* query.Limit(1) *)
forceLimit(q) == [q EXCEPT !.Config.Limit = 1]

(* First and FirstToMap: scanned is the value made of the first row. *)
firstOutcomes(q, dflt, in, op, scanned) ==
    IF detectDialectPanics(q, dflt) THEN {Panic(q, op, in)}
    ELSE UNION {UNION {
        (LET stmt == dbQuery(q1, b, "")
         IN IF b.err # NoErr THEN {Outcome(q1, <<>>, Ret(op, b.err, <<>>, in))}
            ELSE IF in.dbErr THEN {Outcome(q1, <<stmt>>, Ret(op, ErrDriver, <<>>, in))}
            ELSE IF Len(in.result) > 0
            THEN {Outcome(withRows(q1), <<rowsClose(rowsOpened(stmt))>>, Ret(op, NoErr, <<scanned>>, in))}
            ELSE IF contextDone(q1, in)
            THEN {Outcome(withRows(q1), <<rowsClose(rowsOpened(stmt))>>, Ret(op, ErrContext, <<>>, in))}
            ELSE {Outcome(withRows(q1), <<rowsClose(rowsOpened(stmt))>>, Ret(op, ErrNoRows, <<>>, in))}) :
        b \in {BuildSelect(q1.dialect, q1.Config)}} :
        q1 \in {forceLimit(Start(q, dflt))}}

FirstOutcomes(q, dflt, in) ==
    firstOutcomes(q, dflt, in, "First",
                  IF Len(in.result) > 0 THEN ScanMap(q.Model, in.result[1]) ELSE NilRow)

FirstToMapOutcomes(q, dflt, in) ==
    firstOutcomes(q, dflt, in, "FirstToMap",
                  IF Len(in.result) > 0 THEN in.result[1] ELSE NilRow)

CountOutcomes(q, dflt, in) ==
    IF detectDialectPanics(q, dflt) THEN {Panic(q, "Count", in)}
    ELSE UNION {UNION {
        (LET stmt == dbCall(q1, "QueryRow", b, "")
         IN IF b.err # NoErr THEN {Outcome(q1, <<>>, Ret("Count", b.err, <<>>, in))}
            ELSE {Outcome(q1, <<stmt>>,
                          Ret("Count", IF in.dbErr THEN ErrDriver ELSE NoErr, <<>>, in))}) :
        b \in {BuildSelect(q1.dialect, q1.Config)}} :
        q1 \in {[Start(q, dflt) EXCEPT !.Config.Count = TRUE]}}

ExistsOutcomes(q, dflt, in) ==
    IF detectDialectPanics(q, dflt) THEN {Panic(q, "Exists", in)}
    ELSE UNION {UNION {
        (LET stmt == dbQuery(q1, b, "")
         IN IF b.err # NoErr THEN {Outcome(q1, <<>>, Ret("Exists", b.err, <<>>, in))}
            ELSE IF in.dbErr THEN {Outcome(q1, <<stmt>>, Ret("Exists", ErrDriver, <<>>, in))}
            ELSE {Outcome(q1, <<rowsNext(rowsOpened(stmt), Len(in.result) > 0)>>,
                          Ret("Exists", NoErr, <<>>, in))}) :
        b \in {BuildSelect(q1.dialect, q1.Config)}} :
        q1 \in {[Start(q, dflt) EXCEPT !.Config.Limit = 1]}}

(* What an execution method returns once its statement is compiled: the   *)
(* build error with nothing sent, or the result of dbExec.                *)
execOutcome(q, op, b, in) ==
    IF b.err # NoErr THEN Outcome(q, <<>>, Ret(op, b.err, <<>>, in))
    ELSE Outcome(q, <<dbExec(q, b, "")>>,
                 Ret(op, IF in.dbErr THEN ErrDriver ELSE NoErr, <<>>, in))

DeleteOutcomes(q, dflt, in) ==
    IF detectDialectPanics(q, dflt) THEN {Panic(q, "Delete", in)}
    ELSE UNION {{execOutcome(q1, "Delete", b, in) :
                    b \in {BuildDelete(q1.dialect, q1.Config)}} :
                q1 \in {Start(q, dflt)}}

(* maps.Keys and the range over a map give the keys in any order. *)
InsertOutcomes(q, dflt, in) ==
    IF detectDialectPanics(q, dflt) THEN {Panic(q, "Insert", in)}
    ELSE UNION {UNION {
        IF rowMap.err # NoErr
        THEN {Outcome(q1, <<>>, Ret("Insert", rowMap.err, <<>>, in))}
        ELSE UNION {{execOutcome(q1, "Insert", b, [in EXCEPT !.columns = columns]) :
                        b \in {BuildInsert(q1.dialect, q1.Config, rowMap.m, columns)}} :
                    columns \in Perms(DOMAIN rowMap.m)} :
        rowMap \in {ToMap(Use(q1.Model), in.row)}} :
        q1 \in {Start(q, dflt)}}

InsertMapOutcomes(q, dflt, in) ==
    IF detectDialectPanics(q, dflt) THEN {Panic(q, "InsertMap", in)}
    ELSE UNION {UNION {{execOutcome(q1, "InsertMap", b, [in EXCEPT !.columns = columns]) :
                           b \in {BuildInsert(q1.dialect, q1.Config, in.data, columns)}} :
                       columns \in Perms(DOMAIN in.data)} :
                q1 \in {Start(q, dflt)}}

UpdateOutcomes(q, dflt, in) ==
    IF detectDialectPanics(q, dflt) THEN {Panic(q, "Update", in)}
    ELSE UNION {UNION {
        IF Len(in.columns) = 0
        THEN {Outcome(q1, <<>>, Ret("Update", ErrNoColumns, <<>>, in))}
        ELSE IF rowMap.err # NoErr
        THEN {Outcome(q1, <<>>, Ret("Update", rowMap.err, <<>>, in))}
        ELSE {execOutcome(q1, "Update", b, in) :
                 b \in {BuildUpdate(q1.dialect, q1.Config, rowMap.m, in.columns)}} :
        rowMap \in {ToMap(Use(q1.Model), in.row)}} :
        q1 \in {Start(q, dflt)}}

UpdateMapOutcomes(q, dflt, in) ==
    IF detectDialectPanics(q, dflt) THEN {Panic(q, "UpdateMap", in)}
    ELSE UNION {
        IF Cardinality(DOMAIN in.data) = 0
        THEN {Outcome(q1, <<>>, Ret("UpdateMap", ErrNoColumns, <<>>, in))}
        ELSE UNION {{execOutcome(q1, "UpdateMap", b, [in EXCEPT !.columns = columns]) :
                        b \in {BuildUpdate(q1.dialect, q1.Config, in.data, columns)}} :
                    columns \in Perms(DOMAIN in.data)} :
        q1 \in {Start(q, dflt)}}

(***************************************************************************)
(* A program that constructs one Query, configures it and executes it, in  *)
(* at most MaxSteps calls.  The process may have set its default dialect   *)
(* before the Query is constructed.                                        *)
(***************************************************************************)
NoCall == Call("", QueryConfig, NoRowMap, <<>>)

Init ==
    /\ call = NoCall
    /\ built = NotBuilt
    /\ defaultDialect \in {""} \cup Dialects
    /\ query \in {NewQuery(T) : T \in ModelTypes}
    /\ explicit = ""
    /\ sent = <<>>
    /\ ret = NoRet
    /\ steps = 0
    /\ migrationlogs = NoTable
    /\ run = NoRun
    /\ combined = NoCombined
    /\ nesting = NoNesting
    /\ registeredModels = NoModels
    /\ heap = <<>>
    /\ used = NoUse
    /\ goroutines = NoGoroutines
    /\ accesses = {}
    /\ declared = NoDeclared
    /\ cursor = NoCursor
    /\ prefetch = NoPrefetch

FetchRelatedInputs ==
    {<<"Group">>, <<"Accounts">>, <<"Name">>, <<"Group", "Group">>}

FilterInputs == {Q(Str("id"), "=", Val(1)), Q(Str("id"), "~~", Val(1))}

(* A builder call: the results of the last execution are dropped. *)
BuilderCall(q) ==
    /\ steps < MaxSteps
    /\ steps' = steps + 1
    /\ query' = q
    /\ sent' = <<>>
    /\ ret' = NoRet
    /\ UNCHANGED <<call, built, queryIdle>>

SetDialect(d) ==
    /\ defaultDialect' = d
    /\ BuilderCall(query)
    /\ UNCHANGED explicit

Dialect(d) ==
    /\ explicit' = d
    /\ BuilderCall([query EXCEPT !.dialect = d])
    /\ UNCHANGED defaultDialect

Transaction ==
    /\ BuilderCall([query EXCEPT !.Config.Transaction = TRUE])
    /\ UNCHANGED <<defaultDialect, explicit>>

Context ==
    /\ BuilderCall([query EXCEPT !.Config.Context = TRUE])
    /\ UNCHANGED <<defaultDialect, explicit>>

Limit(limit) ==
    /\ BuilderCall([query EXCEPT !.Config.Limit = limit])
    /\ UNCHANGED <<defaultDialect, explicit>>

Offset(offset) ==
    /\ BuilderCall([query EXCEPT !.Config.Offset = offset])
    /\ UNCHANGED <<defaultDialect, explicit>>

Sort(columns) ==
    /\ BuilderCall([query EXCEPT !.Config.Sort = columns])
    /\ UNCHANGED <<defaultDialect, explicit>>

FilterCall(f) ==
    /\ Len(query.Config.Filters) < MaxFilters
    /\ BuilderCall([query EXCEPT !.Config = Filter(@, f.Left, f.Operator, f.Right)])
    /\ UNCHANGED <<defaultDialect, explicit>>

FetchRelated(columns) ==
    /\ BuilderCall([query EXCEPT !.Config.FetchRelated = columns])
    /\ UNCHANGED <<defaultDialect, explicit>>

(* An execution method may be called: the program has not run out of calls *)
(* and, if it has executed the Query before, it has made a builder call    *)
(* (or SetDialect) since.                                                  *)
Ready == ret = NoRet /\ steps < MaxSteps

(* An execution method returns outcome o. *)
Executed(o) ==
    /\ steps' = steps + 1
    /\ query' = o.q
    /\ sent' = o.sent
    /\ ret' = o.ret
    /\ UNCHANGED <<call, built, defaultDialect, explicit, queryIdle>>

(* The database's answer to a statement that asks for rows. *)
Answers(results) ==
    {In(NilRow, EmptyMap, <<>>, result, dbErr, done) :
        result \in results, dbErr \in BOOLEAN, done \in BOOLEAN}

Answer(in) ==
    /\ in.dbErr => in.result = <<>> /\ ~in.done
    /\ in.done => query.Config.Context

All ==
    /\ Ready
    /\ \E in \in Answers(ResultSets(query.Model, MaxRows)) :
           /\ Answer(in)
           /\ \E o \in AllOutcomes(query, defaultDialect, in) : Executed(o)

AllToMap ==
    /\ Ready
    /\ \E in \in Answers(ResultSets(query.Model, 1)) :
           /\ Answer(in)
           /\ \E o \in AllToMapOutcomes(query, defaultDialect, in) : Executed(o)

First ==
    /\ Ready
    /\ \E in \in Answers(ResultSets(query.Model, 1)) :
           /\ Answer(in)
           /\ \E o \in FirstOutcomes(query, defaultDialect, in) : Executed(o)

FirstToMap ==
    /\ Ready
    /\ \E in \in Answers(ResultSets(query.Model, 1)) :
           /\ Answer(in)
           /\ \E o \in FirstToMapOutcomes(query, defaultDialect, in) : Executed(o)

Count ==
    /\ Ready
    /\ \E dbErr \in BOOLEAN :
           \E o \in CountOutcomes(query, defaultDialect,
                                  In(NilRow, EmptyMap, <<>>, <<>>, dbErr, FALSE)) :
               Executed(o)

ExistsCall ==
    /\ Ready
    /\ \E result \in ResultSets(query.Model, 1) :
           \E o \in ExistsOutcomes(query, defaultDialect,
                                   In(NilRow, EmptyMap, <<>>, result, FALSE, FALSE)) :
               Executed(o)

Delete ==
    /\ Ready
    /\ \E dbErr \in BOOLEAN :
           \E o \in DeleteOutcomes(query, defaultDialect,
                                   In(NilRow, EmptyMap, <<>>, <<>>, dbErr, FALSE)) :
               Executed(o)

Insert ==
    /\ Ready
    /\ \E row \in InsertRows(query.Model) :
           \E o \in InsertOutcomes(query, defaultDialect,
                                   In(row, EmptyMap, <<>>, <<>>, FALSE, FALSE)) :
               Executed(o)

InsertMap ==
    /\ Ready
    /\ \E data \in DataInputs :
           \E o \in InsertMapOutcomes(query, defaultDialect,
                                      In(NilRow, data, <<>>, <<>>, FALSE, FALSE)) :
               Executed(o)

Update ==
    /\ Ready
    /\ \E row \in InsertRows(query.Model), columns \in UpdateColumnInputs :
           \E o \in UpdateOutcomes(query, defaultDialect,
                                   In(row, EmptyMap, columns, <<>>, FALSE, FALSE)) :
               Executed(o)

UpdateMap ==
    /\ Ready
    /\ \E data \in DataInputs :
           \E o \in UpdateMapOutcomes(query, defaultDialect,
                                      In(NilRow, data, <<>>, <<>>, FALSE, FALSE)) :
               Executed(o)

Next ==
    \/ \E d \in Dialects : SetDialect(d)
    \/ \E d \in Dialects : Dialect(d)
    \/ Transaction
    \/ Context
    \/ Limit(10)
    \/ Offset(20)
    \/ Sort(<<SortEntry(TRUE, "id")>>)
    \/ \E f \in FilterInputs : FilterCall(f)
    \/ \E columns \in FetchRelatedInputs : FetchRelated(columns)
    \/ All
    \/ AllToMap
    \/ First
    \/ FirstToMap
    \/ Count
    \/ ExistsCall
    \/ Delete
    \/ Insert
    \/ InsertMap
    \/ Update
    \/ UpdateMap

Spec == Init /\ [][Next]_vars

(***************************************************************************)
(* Properties of the direct Build calls (SpecBuild).                       *)
(***************************************************************************)
Built == built # NotBuilt

(* The parameter placeholders of an SQL text, left to right. *)
Placeholders(sql) ==
    LET isParam(t) == t = SqliteParam(1) \/ \E i \in 1..Len(sql) : t = PqParam(i)
    IN SelectSeq(sql, isParam)

IndexOf(seq, tok) ==
    CHOOSE i \in 1..Len(seq) : seq[i] = tok /\ \A j \in 1..(i - 1) : seq[j] # tok

(* The column list of an INSERT text: the tokens between " (" and          *)
(* ") VALUES (", without the separating commas.                            *)
InsertColumnList(sql) ==
    LET notComma(t) == t # ","
    IN SelectSeq(SubSeq(sql, IndexOf(sql, " (") + 1, IndexOf(sql, ") VALUES (") - 1),
                 notComma)

(* C2: every SELECT, INSERT and UPDATE build that succeeds emits as many   *)
(* placeholders as it returns arguments, the i-th placeholder from the     *)
(* left standing for the i-th argument (in PostgreSQL it is $i).           *)
C2_PlaceholdersMatchArgs ==
    (Built /\ call.op \in {"select", "insert", "update"} /\ built.r.err = NoErr) =>
        LET ph == Placeholders(built.r.sql)
        IN /\ Len(ph) = Len(built.r.args)
           /\ built.dialect = "pq" => \A i \in DOMAIN ph : ph[i] = PqParam(i)

(* The same for SELECT and UPDATE builds alone. *)
SelectUpdatePlaceholdersMatch ==
    (Built /\ call.op \in {"select", "update"} /\ built.r.err = NoErr) =>
        LET ph == Placeholders(built.r.sql)
        IN /\ Len(ph) = Len(built.r.args)
           /\ built.dialect = "pq" => \A i \in DOMAIN ph : ph[i] = PqParam(i)

(* C4: the PostgreSQL BuildDelete fails when the state has a sort list, a  *)
(* limit or an offset, and the PostgreSQL BuildUpdate fails when the state *)
(* has a limit or an offset.                                               *)
C4_PqRejectsUnsupported ==
    (Built /\ built.dialect = "pq") =>
        /\ (call.op = "delete" /\ (Len(call.config.Sort) > 0 \/ call.config.Limit # Nil
                                   \/ call.config.Offset # Nil))
              => built.r.err # NoErr
        /\ (call.op = "update" /\ (call.config.Limit # Nil \/ call.config.Offset # Nil))
              => built.r.err # NoErr

(* The PostgreSQL BuildDelete alone rejects sort list, limit and offset. *)
PqDeleteRejects ==
    (Built /\ built.dialect = "pq" /\ call.op = "delete"
       /\ (Len(call.config.Sort) > 0 \/ call.config.Limit # Nil \/ call.config.Offset # Nil))
        => built.r.err # NoErr

(* C7: BuildInsert fails when a listed column is not in the model's column *)
(* metadata or has no entry in the row map; otherwise the INSERT lists the *)
(* given columns in the given order and the arguments are their values in  *)
(* that order.                                                             *)
C7_BuildInsertValidation ==
    (Built /\ call.op = "insert") =>
        LET cols == call.columns
            bad == \E i \in DOMAIN cols :
                      \/ cols[i] \notin DOMAIN call.config.Fields
                      \/ cols[i] \notin DOMAIN call.rowMap
        IN IF bad THEN built.r.err # NoErr
           ELSE /\ built.r.err = NoErr
                /\ Len(built.r.args) = Len(cols)
                /\ \A i \in DOMAIN cols : built.r.args[i] = call.rowMap[cols[i]]
                /\ Len(InsertColumnList(built.r.sql)) = Len(cols)
                /\ \A i \in DOMAIN cols :
                      InsertColumnList(built.r.sql)[i] = QuoteIdentifier(built.dialect, cols[i])

C7_Witness ==
    /\ Built /\ call.op = "insert" /\ built.dialect = "pq"
    /\ call.columns = <<"name", "id">> /\ built.r.err = NoErr
    /\ built.r.args = <<7, 1>>

(* C8: BuildUpdate fails when a listed column is not in the model's column *)
(* metadata, and when a listed column has no entry in the row map.         *)
C8_BuildUpdateValidation ==
    (Built /\ call.op = "update") =>
        ((\E i \in DOMAIN call.columns :
             \/ call.columns[i] \notin DOMAIN call.config.Fields
             \/ call.columns[i] \notin DOMAIN call.rowMap)
          => built.r.err # NoErr)

(* BuildUpdate rejects a listed column that has no entry in the row map. *)
UpdateMissingValueRejected ==
    (Built /\ call.op = "update") =>
        ((\E i \in DOMAIN call.columns : call.columns[i] \notin DOMAIN call.rowMap)
          => built.r.err # NoErr)

(***************************************************************************)
(* Properties of the execution methods (Spec).                             *)
(***************************************************************************)
Range(seq) == {seq[i] : i \in DOMAIN seq}

(* The last call was execution method op and it did not panic. *)
Returned(op) == ret.op = op /\ ret.err # ErrPanic

(* The statements that the Query built for relation `name` has sent. *)
RelatedStatements(name) == {i \in DOMAIN sent : sent[i].related = name}

(* Some primary row of the answer carries an identifier for relation name: *)
(* a non-NULL foreign key (to-one), or the row itself (to-many).           *)
HasIdentifier(T, name, result) ==
    IF relationKind(T, name) = "fk"
    THEN \E i \in DOMAIN result : result[i][FieldByName(T, name).db] # Nil
    ELSE relationKind(T, name) = "otm" /\ Len(result) > 0

(* All has read every primary row and prefetched without error or panic. *)
AllPrefetched ==
    /\ ret.op = "All" /\ ret.err \in {NoErr, ErrContext}
    /\ sent # <<>>

(* C1 as stated: All with FetchRelated sends exactly one additional query  *)
(* for each requested relation name.                                       *)
C1_ExactlyOnePerRelation ==
    AllPrefetched =>
        \A name \in Range(query.Config.FetchRelated) :
            relationKind(query.Model, name) \in {"fk", "otm"} =>
                Cardinality(RelatedStatements(name)) = 1

(* C1, amended: All with FetchRelated sends at most one additional query   *)
(* for each distinct requested relation name, whatever the number of       *)
(* primary rows: exactly one when some primary row carries an identifier   *)
(* for the relation, none otherwise; and no other additional query.        *)
C1_AtMostOnePerRelation ==
    ret.op = "All" =>
        /\ \A i \in DOMAIN sent :
              i > 1 => sent[i].related \in Range(query.Config.FetchRelated)
        /\ \A name \in Range(query.Config.FetchRelated) :
              /\ Cardinality(RelatedStatements(name)) <= 1
              /\ AllPrefetched =>
                    (Cardinality(RelatedStatements(name)) = 1
                        <=> HasIdentifier(query.Model, name, ret.in.result))

(* Two primary rows that both refer to a group, and one additional query. *)
C1_Witness ==
    /\ AllPrefetched /\ ret.err = NoErr
    /\ query.Model = "Accounts"
    /\ query.Config.FetchRelated = <<"Group">>
    /\ Len(ret.in.result) = 2
    /\ \A i \in DOMAIN ret.in.result : ret.in.result[i].group_id # Nil
    /\ Len(sent) = 2
    /\ sent[2].related = "Group"

(* The columns named by the call's column list or map. *)
NamedColumns ==
    IF ret.op \in {"InsertMap", "UpdateMap"} THEN DOMAIN ret.in.data
    ELSE IF ret.op = "Update" THEN Range(ret.in.columns)
    ELSE {}

(* The values at hand for the named columns. *)
ValueColumns ==
    IF ret.op = "Update" THEN DOMAIN ToMap(Use(query.Model), ret.in.row).m
    ELSE NamedColumns

(* The call is one that the validation rules reject. *)
ValidationError ==
    \/ /\ ret.op \in {"InsertMap", "UpdateMap", "Update"}
       /\ \E c \in NamedColumns : c \notin DOMAIN Use(query.Model).Fields
    \/ /\ ret.op = "Update"
       /\ \E c \in NamedColumns : c \notin ValueColumns
    \/ ret.op = "Update" /\ ret.in.columns = <<>>
    \/ ret.op = "UpdateMap" /\ DOMAIN ret.in.data = {}
    \/ /\ ret.op = "Delete"
       /\ \/ query.Config.Offset # Nil
          \/ query.dialect = "pq" /\ (query.Config.Limit # Nil \/ query.Config.Sort # <<>>)
    \/ /\ ret.op \in {"Update", "UpdateMap"}
       /\ \/ query.Config.Offset # Nil
          \/ query.dialect = "pq" /\ query.Config.Limit # Nil

(* C3: a call that the validation rules reject returns an error and sends *)
(* no statement.                                                          *)
C3_ValidationErrorSendsNothing ==
    (ret.op # "" /\ ret.err # ErrPanic /\ ValidationError) =>
        ret.err # NoErr /\ sent = <<>>

(* The rejections that do hold: zero columns, an empty map, a named column *)
(* without a value, an unknown column on InsertMap, and the clauses that   *)
(* BuildDelete and the SQLite BuildUpdate refuse.                          *)
ValidationErrorsRejected ==
    (/\ ret.op # "" /\ ret.err # ErrPanic
     /\ \/ ret.op = "Update" /\ ret.in.columns = <<>>
        \/ ret.op = "UpdateMap" /\ DOMAIN ret.in.data = {}
        \/ ret.op = "Update" /\ \E c \in NamedColumns : c \notin ValueColumns
        \/ ret.op = "InsertMap" /\ \E c \in NamedColumns : c \notin DOMAIN Use(query.Model).Fields
        \/ ret.op = "Delete" /\ ValidationError
        \/ /\ ret.op \in {"Update", "UpdateMap"}
           /\ query.dialect = "sqlite" /\ query.Config.Offset # Nil) =>
        ret.err # NoErr /\ sent = <<>>

(* C5: with a transaction set on the Query, every statement of an         *)
(* execution method goes through the transaction, and through its         *)
(* context-aware call when a context is set as well.                      *)
C5_TransactionBinding ==
    (ret.op # "" /\ query.Config.Transaction) =>
        \A i \in DOMAIN sent :
            /\ sent[i].conn = "tx"
            /\ query.Config.Context => sent[i].ctx

(* The statements of the caller's own Query do follow its transaction and *)
(* context.                                                               *)
OwnStatementsBound ==
    ret.op # "" =>
        \A i \in DOMAIN sent :
            sent[i].related = "" =>
                /\ sent[i].conn = (IF query.Config.Transaction THEN "tx" ELSE "db")
                /\ sent[i].ctx = query.Config.Context

(* The columns of the INSERT statement that the last call sent. *)
InsertedColumns == Range(InsertColumnList(sent[1].sql))

PrimaryKeyColumn == QuoteIdentifier(query.dialect, Use(query.Model).PrimaryColumn)

InsertMapKeepsZeroPrimaryKey ==
    /\ Returned("InsertMap") /\ sent # <<>>
    /\ "id" \in DOMAIN ret.in.data /\ ret.in.data["id"] = 0
    /\ PrimaryKeyColumn \in InsertedColumns

(* An execution method is called in this step. *)
Executes == ret' # NoRet /\ steps' = steps + 1

(* The execution step compiles the statements of the Query with dialect d, *)
(* or panics with nothing sent when d is no dialect.                       *)
CompiledWith(d) ==
    IF d = ""
    THEN ret'.err = ErrPanic /\ sent' = <<>>
    ELSE /\ query'.dialect = d
         /\ \A i \in DOMAIN sent' : sent'[i].related = "" => sent'[i].dialect = d

(* C9 as stated: an execution method compiles with the override set by    *)
(* Dialect if there is one, otherwise with the default dialect in force at *)
(* the call, and panics with nothing sent if there is neither.             *)
C9_DefaultInForceAtCall ==
    [][Executes => CompiledWith(IF explicit # "" THEN explicit ELSE defaultDialect)]_vars

(* C9, amended: an execution method compiles with the override set by     *)
(* Dialect if there is one; otherwise with the default dialect that was in *)
(* force at the first execution method called on this Query, which the     *)
(* Query keeps, and only if there was none with the default in force at    *)
(* the call; it panics with nothing sent if there is none of them.         *)
C9_DialectKeptByQuery ==
    [][Executes => CompiledWith(IF explicit # "" THEN explicit
                                ELSE IF query.dialect # "" THEN query.dialect
                                ELSE defaultDialect)]_vars

(* A Query without override has sent a statement compiled with the default *)
(* of its first execution after the default was changed.                   *)
C9_Witness ==
    /\ explicit = "" /\ defaultDialect # ""
    /\ ret.op # "" /\ sent # <<>>
    /\ sent[1].dialect # defaultDialect

(* The limit that a compiled SELECT carries: the argument of the          *)
(* placeholder after LIMIT, or Nil.                                       *)
LimitOf(stmt) ==
    IF " LIMIT " \notin Range(stmt.sql) THEN Nil
    ELSE stmt.args[Len(Placeholders(SubSeq(stmt.sql, 1, IndexOf(stmt.sql, " LIMIT ") + 1)))]

FirstSent == ret.op \in {"First", "FirstToMap"} /\ sent # <<>>

(* The statement was answered with an empty result set. *)
EmptyResult == ~ret.in.dbErr /\ ret.in.result = <<>>

MaxMigrations == 2

MaxRuns == 3

DirUp == 1

DirDown == 2

BeforeFirst == 0 - 1

MigrationLists == {[k \in 1..n |-> k] : n \in 1..MaxMigrations}

ErrSetupTable == "rem: migrations setup: failed to create table for migration logs"

ErrSetupList == "rem: migrations setup: failed to get migrations list"

ErrMigrationFailed == "rem: migration: failed"

ErrLogInsert == "rem: migration: failed to insert migration logs"

(* Query.TableCreate *)
TableCreateOutcomes(q, dflt, tableCreateConfig, in) ==
    IF detectDialectPanics(q, dflt) THEN {Panic(q, "TableCreate", in)}
    ELSE UNION {{execOutcome(q1, "TableCreate", b, in) :
                    b \in {BuildTableCreate(q1.dialect, q1.Config, tableCreateConfig)}} :
                q1 \in {Start(q, dflt)}}

(* The database: CREATE TABLE IF NOT EXISTS.  The columns declared         *)
(* PRIMARY KEY are unique.                                                 *)
primaryKeys(stmt) ==
    {c \in DOMAIN Use("MigrationLogs").Fields :
        \E p \in 1..(Len(stmt.sql) - 3) :
            /\ stmt.sql[p] = QuoteIdentifier(stmt.dialect, c)
            /\ stmt.sql[p + 3] = " PRIMARY KEY"}

dbCreateTable(table, stmt) ==
    IF table.exists THEN table
    ELSE [exists |-> TRUE, primary |-> primaryKeys(stmt), rows |-> <<>>]

(* The database: the id a serial or rowid column gives a row when the      *)
(* INSERT supplies none.                                                   *)
nextId(table) ==
    IF table.rows = <<>> THEN 1
    ELSE 1 + (CHOOSE m \in {table.rows[k].id : k \in DOMAIN table.rows} :
                 \A k \in DOMAIN table.rows : table.rows[k].id <= m)

(* The database: INSERT of the listed columns with the statement's         *)
(* arguments; it fails when a PRIMARY KEY value is already in the table.   *)
dbInsertRow(table, r) ==
    IF "id" \in table.primary /\ \E k \in DOMAIN table.rows : table.rows[k].id = r.id
    THEN [err |-> TRUE, table |-> table]
    ELSE [err |-> FALSE, table |-> [table EXCEPT !.rows = Append(@, r)]]

dbInsert(table, columns, args) ==
    dbInsertRow(table,
                [c \in {columns[k] : k \in DOMAIN columns} \cup {"id"} |->
                    IF \E k \in DOMAIN columns : columns[k] = c
                    THEN args[CHOOSE k \in DOMAIN columns : columns[k] = c]
                    ELSE nextId(table)])

(* The database: the answers to SELECT ... ORDER BY id DESC LIMIT 1.  The  *)
(* order of rows of equal id is not determined.                            *)
dbSelectLatest(table) ==
    IF table.rows = <<>> THEN {<<>>}
    ELSE {<<table.rows[k]>> :
             k \in {k \in DOMAIN table.rows :
                       \A j \in DOMAIN table.rows : table.rows[j].id <= table.rows[k].id}}

(* The loop of migrateSetup over the list, given the latest log entry. *)
latestIndexOf(migrations, latest) ==
    LET hits == {i \in 0..(Len(migrations) - 1) : migrations[i + 1] = latest.MigrationType}
        first == CHOOSE i \in hits : \A j \in hits : i <= j
    IN IF hits = {} THEN BeforeFirst
       ELSE IF latest.Direction = DirDown THEN first - 1 ELSE first

(* &MigrationLogs{CreatedAt: time.Now(), Direction: ..., MigrationType: ...} *)
logRow(now, direction, migrationType) ==
    [ZeroRow("MigrationLogs") EXCEPT !.CreatedAt = now, !.Direction = direction,
                                      !.MigrationType = migrationType]

(* migrationLogs.Sort("-id") *)
latestQuery == [NewQuery("MigrationLogs") EXCEPT !.Config.Sort = <<SortEntry(TRUE, "id")>>]

(* What the specifications of the query builder's calls leave alone. *)
migrateIdle == <<call, built, query, explicit, sent, ret, steps, filterVars, registerVars, shareVars, sliceVars, orderVars>>

MigrateInit ==
    /\ call = NoCall
    /\ built = NotBuilt
    /\ defaultDialect \in Dialects
    /\ query = NewQuery("MigrationLogs")
    /\ explicit = ""
    /\ sent = <<>>
    /\ ret = NoRet
    /\ steps = 0
    /\ migrationlogs = NoTable
    /\ run \in {[NoRun EXCEPT !.migrations = m] : m \in MigrationLists}
    /\ combined = NoCombined
    /\ nesting = NoNesting
    /\ registeredModels = NoModels
    /\ heap = <<>>
    /\ used = NoUse
    /\ goroutines = NoGoroutines
    /\ accesses = {}
    /\ declared = NoDeclared
    /\ cursor = NoCursor
    /\ prefetch = NoPrefetch

(* The runner returns logs and err. *)
returned(r, logs, err) == [r EXCEPT !.pc = "returned", !.logs = logs, !.err = err]

(* A call of MigrateUp or MigrateDown begins: nothing of the previous call *)
(* is kept but the list (and the history).                                 *)
startRun(op, r, base) ==
    [NoRun EXCEPT !.op = op, !.migrations = r.migrations, !.runs = r.runs + 1,
                  !.base = base, !.prev = [op |-> r.op, err |-> r.err],
                  !.applied = r.applied, !.failed = r.failed,
                  !.unlogged = r.unlogged, !.misread = r.misread]

(* The entry the database answered with is not the one inserted last. *)
misreads(table, result) ==
    result # <<>> /\ result[1] # table.rows[Len(table.rows)]

(* migrateSetup once the latest log entry is asked for: first is the       *)
(* outcome of First, result the rows the database answered with.           *)
setupDone(op, r, first, result) ==
    IF first.ret.err # NoErr /\ first.ret.err # ErrNoRows
    THEN returned(r, <<>>, ErrSetupList)
    ELSE [r EXCEPT !.pc = "loop",
                   !.read = result,
                   !.latestIndex = IF first.ret.err = ErrNoRows THEN BeforeFirst
                                   ELSE latestIndexOf(r.migrations, first.ret.rows[1]),
                   !.i = IF first.ret.err = ErrNoRows
                         THEN (IF op = "MigrateUp" THEN 0 ELSE BeforeFirst)
                         ELSE latestIndexOf(r.migrations, first.ret.rows[1])
                              + (IF op = "MigrateUp" THEN 1 ELSE 0)]

(***************************************************************************)
(* MigrateUp and MigrateDown up to their loop: migrateSetup creates the    *)
(* table if it does not exist and reads the latest entry.  tableErr and    *)
(* firstErr say whether the database fails the statement.                  *)
(***************************************************************************)
MigrateSetup(op) ==
    /\ run.pc \in {"idle", "returned"}
    /\ run.runs < MaxRuns
    /\ \E tableErr \in BOOLEAN :
       \E create \in TableCreateOutcomes(NewQuery("MigrationLogs"), defaultDialect,
                                         [IfNotExists |-> TRUE],
                                         In(NilRow, <<>>, <<>>, <<>>, tableErr, FALSE)) :
          IF create.ret.err # NoErr
          THEN /\ run' = returned(startRun(op, run, Len(migrationlogs.rows)), <<>>,
                                  ErrSetupTable)
               /\ UNCHANGED migrationlogs
          ELSE \E table \in {dbCreateTable(migrationlogs, create.sent[1])} :
               \E firstErr \in BOOLEAN :
               \E result \in (IF firstErr THEN {<<>>} ELSE dbSelectLatest(table)) :
               \E first \in FirstOutcomes(latestQuery, defaultDialect,
                                          In(NilRow, <<>>, <<>>, result, firstErr, FALSE)) :
                  /\ migrationlogs' = table
                  /\ run' = [setupDone(op, startRun(op, run, Len(table.rows)), first, result)
                                EXCEPT !.misread = @ \/ misreads(table, result)]
    /\ UNCHANGED <<defaultDialect, migrateIdle>>

(* The columns an INSERT names. *)
columnNames(columns) == {columns[k] : k \in DOMAIN columns}

(* The log insert of one loop turn: the INSERT the library sends, executed *)
(* by the database.  r is the runner after the step was called.            *)
(* The step returned nil and its log row was not inserted. *)
notLogged(r) == [r EXCEPT !.failed = TRUE, !.unlogged = TRUE]

logInsert(r, direction, next) ==
    \E dbErr \in BOOLEAN :
    \E o \in InsertOutcomes(NewQuery("MigrationLogs"), defaultDialect,
                            In(logRow(Len(migrationlogs.rows) + 1, direction,
                                      r.migrations[r.i + 1]),
                               <<>>, <<>>, <<>>, dbErr, FALSE)) :
       IF o.ret.err # NoErr
       THEN /\ run' = returned(notLogged(r), r.logs, ErrLogInsert)
            /\ UNCHANGED migrationlogs
       ELSE \E res \in {dbInsert(migrationlogs, o.ret.in.columns, o.sent[1].args)} :
               /\ migrationlogs' = res.table
               /\ run' = IF res.err
                         THEN returned([notLogged(r) EXCEPT
                                           !.columns = columnNames(o.ret.in.columns)],
                                       r.logs, ErrLogInsert)
                         ELSE [r EXCEPT !.i = next, !.columns = columnNames(o.ret.in.columns)]

(* One turn of the loop of MigrateUp; ok says whether Up returns nil. *)
MigrateUpStep(ok) ==
    /\ run.op = "MigrateUp" /\ run.pc = "loop"
    /\ run.i < Len(run.migrations)
    /\ \E r \in {[run EXCEPT
                    !.logs = Append(@, [dir |-> DirUp, type |-> run.migrations[run.i + 1]]),
                    !.called = Append(@, [dir |-> DirUp, i |-> run.i, ok |-> ok]),
                    !.applied = IF ok THEN @ \cup {run.i} ELSE @,
                    !.failed = @ \/ ~ok]} :
          IF ~ok
          THEN /\ run' = returned(r, r.logs, ErrMigrationFailed)
               /\ UNCHANGED migrationlogs
          ELSE logInsert(r, DirUp, run.i + 1)
    /\ UNCHANGED <<defaultDialect, migrateIdle>>

(* One turn of the loop of MigrateDown; ok says whether Down returns nil. *)
MigrateDownStep(ok) ==
    /\ run.op = "MigrateDown" /\ run.pc = "loop"
    /\ run.i > BeforeFirst
    /\ \E r \in {[run EXCEPT
                    !.logs = Append(@, [dir |-> DirDown, type |-> run.migrations[run.i + 1]]),
                    !.called = Append(@, [dir |-> DirDown, i |-> run.i, ok |-> ok]),
                    !.applied = IF ok THEN @ \ {run.i} ELSE @,
                    !.failed = @ \/ ~ok]} :
          IF ~ok
          THEN /\ run' = returned(r, r.logs, ErrMigrationFailed)
               /\ UNCHANGED migrationlogs
          ELSE logInsert(r, DirDown, run.i - 1)
    /\ UNCHANGED <<defaultDialect, migrateIdle>>

(* The loop ends: return logs, nil. *)
MigrateReturn ==
    /\ run.pc = "loop"
    /\ \/ run.op = "MigrateUp" /\ run.i >= Len(run.migrations)
       \/ run.op = "MigrateDown" /\ run.i <= BeforeFirst
    /\ run' = returned(run, run.logs, NoErr)
    /\ UNCHANGED <<migrationlogs, defaultDialect, migrateIdle>>

MigrateNext ==
    \/ MigrateSetup("MigrateUp")
    \/ MigrateSetup("MigrateDown")
    \/ \E ok \in BOOLEAN : MigrateUpStep(ok)
    \/ \E ok \in BOOLEAN : MigrateDownStep(ok)
    \/ MigrateReturn

SpecMigrate == MigrateInit /\ [][MigrateNext]_vars

(***************************************************************************)
(* Properties of the migration runner (SpecMigrate).                       *)
(***************************************************************************)
(* migrateSetup of the current call has returned without error. *)
SetupDone == run.op # "" /\ run.err \notin {ErrSetupTable, ErrSetupList}

(* The rows the current call has added to the log. *)
RowsAdded == SubSeq(migrationlogs.rows, run.base + 1, Len(migrationlogs.rows))

(* The steps of the current call that returned nil. *)
StepsDone == SelectSeq(run.called, LAMBDA c : c.ok)

(* The steps called are direction dir at the indexes from, from + by, ... *)
StepsInOrder(dir, from, by) ==
    \A k \in DOMAIN run.called :
        /\ run.called[k].dir = dir
        /\ run.called[k].i = from + by * (k - 1)
        /\ ~run.called[k].ok => k = Len(run.called)

(* One log row per step done, in the order of the steps. *)
RowsFollowSteps ==
    /\ Len(RowsAdded) = Len(StepsDone)
    /\ \A k \in DOMAIN RowsAdded :
          /\ RowsAdded[k].direction = StepsDone[k].dir
          /\ RowsAdded[k].migration_type = run.migrations[StepsDone[k].i + 1]

(* One log line per step called, the failing one included; an error is    *)
(* returned exactly when the last step failed.                             *)
LinesFollowSteps ==
    /\ Len(run.logs) = Len(run.called)
    /\ \A k \in DOMAIN run.logs :
          /\ run.logs[k].dir = run.called[k].dir
          /\ run.logs[k].type = run.migrations[run.called[k].i + 1]
    /\ run.pc = "returned" =>
          (run.err # NoErr <=> \E k \in DOMAIN run.called : ~run.called[k].ok)

(* C11: MigrateUp calls the up-steps of exactly the migrations after the   *)
(* resume point, in ascending list order, and inserts one 'up' log row     *)
(* after each successful step before the next step starts; at the first    *)
(* failing step it stops, writes no row for it, keeps the earlier rows,    *)
(* calls no down-step and returns the log lines so far with the error.     *)
C11_MigrateUpStepsAndRows ==
    (SetupDone /\ run.op = "MigrateUp") =>
        /\ StepsInOrder(DirUp, run.latestIndex + 1, 1)
        /\ RowsFollowSteps
        /\ LinesFollowSteps
        /\ (run.pc = "returned" /\ run.err = NoErr) =>
              Len(run.called) = Len(run.migrations) - 1 - run.latestIndex

(* The steps of MigrateUp are called in ascending order from the index     *)
(* after the one migrateSetup returned, and only the last may fail.        *)
MigrateUpStepsInOrder ==
    (SetupDone /\ run.op = "MigrateUp") => StepsInOrder(DirUp, run.latestIndex + 1, 1)

(* The index of the migration that a log entry names. *)
PositionOf(entry) ==
    CHOOSE i \in 0..(Len(run.migrations) - 1) : run.migrations[i + 1] = entry.migration_type

(* The entry inserted last before the current call. *)
LastEntry == migrationlogs.rows[run.base]

(* C12: migrateSetup returns -1 when the log has no entry; otherwise, the  *)
(* most recent entry naming the migration at position i, it returns i - 1  *)
(* if the entry's direction is 'down' and i if it is 'up'.                 *)
C12_ResumeIndex ==
    SetupDone =>
        run.latestIndex =
            IF run.base = 0 THEN BeforeFirst
            ELSE IF LastEntry.direction = DirDown THEN PositionOf(LastEntry) - 1
            ELSE PositionOf(LastEntry)

(* migrateSetup computes the index from the entry the database answered   *)
(* with.                                                                   *)
ResumeIndexOfEntryRead ==
    SetupDone =>
        run.latestIndex =
            IF run.read = <<>> THEN BeforeFirst
            ELSE IF run.read[1].direction = DirDown THEN PositionOf(run.read[1]) - 1
            ELSE PositionOf(run.read[1])

(* C13: MigrateDown calls the down-steps of exactly the migrations at the  *)
(* resume point, resume point - 1, ..., 0, in that order, inserts one      *)
(* 'down' log row after each successful step, and stops at the first       *)
(* failure, the rows of the steps already done staying in the log.         *)
C13_MigrateDownStepsAndRows ==
    (SetupDone /\ run.op = "MigrateDown") =>
        /\ StepsInOrder(DirDown, run.latestIndex, 0 - 1)
        /\ RowsFollowSteps
        /\ (run.pc = "returned" /\ run.err = NoErr) =>
              Len(run.called) = run.latestIndex + 1

(* The steps of MigrateDown are called in descending order from the index  *)
(* migrateSetup returned, and only the last may fail.                      *)
MigrateDownStepsInOrder ==
    (SetupDone /\ run.op = "MigrateDown") => StepsInOrder(DirDown, run.latestIndex, 0 - 1)

(* C14: the log has one row per successfully executed step; the runner's   *)
(* INSERT does not supply the id column, so ids grow in insertion order    *)
(* and the entry migrateSetup reads as most recent is the row inserted     *)
(* last.                                                                   *)
C14_IdLeftToDatabase ==
    /\ "id" \notin run.columns
    /\ \A j, k \in DOMAIN migrationlogs.rows :
          j < k => migrationlogs.rows[j].id < migrationlogs.rows[k].id
    /\ (SetupDone /\ run.read # <<>>) => run.read[1] = LastEntry
    /\ SetupDone => RowsFollowSteps

(* The runner's INSERT supplies the zero id of the row it is given. *)
LogInsertSuppliesId == run.columns # {} => "id" \in run.columns

(***************************************************************************)
(* The filter combinators And and Or, and the builder methods FilterAnd,   *)
(* FilterOr, Join, JoinFull, JoinLeft and JoinRight.                       *)
(*                                                                         *)
(* An argument of the variadic clauses parameter (an interface{}) is a     *)
(* record: kind is its dynamic type, clauses its clause or clauses.  The   *)
(* field nest is history: for each token, the number of combinator calls   *)
(* around the call that produced it.                                       *)
(*   combined   the last call of And or Or: its arguments, its result      *)
(*   nesting    history of the query's filter list and of each join's ON   *)
(***************************************************************************)
MaxArgs == 2
MaxTokens == 13
MaxCombine == 2
MaxFilterCalls == 2

ClauseArg(clause) == [kind |-> "FilterClause", clauses |-> <<clause>>, nest |-> <<0>>]

SequenceArg(clauses, nest) == [kind |-> "[]FilterClause", clauses |-> clauses, nest |-> nest]

SkipArg == [kind |-> "other", clauses |-> <<>>, nest |-> <<>>]

flattenFilterClause(clauses, clause) ==
    CASE clause.kind = "FilterClause" -> Append(clauses, clause.clauses[1])
      [] clause.kind = "[]FilterClause" -> clauses \o clause.clauses
      [] OTHER -> clauses

(* for _, clause := range clauses { flat = flattenFilterClause(flat, clause) } *)
RECURSIVE flattened(_, _, _)
flattened(flat, clauses, i) ==
    IF i > Len(clauses) THEN flat
    ELSE flattened(flattenFilterClause(flat, clauses[i]), clauses, i + 1)

(* A variant of the test that does not look at the depth counter. *)
connectiveDueAnyDepth(i, indent) == i > 1

(* The loop's test i > 0 && indent == 0; i counts from 1 here. *)
connectiveDue(i, indent) == i > 1 /\ indent = 0

(* A variant of the depth counter that never counts a closing bracket. *)
indentAfterOpenOnly(clause, indent) ==
    IF clause.Rule = "(" THEN indent + 1 ELSE indent

indentAfter(clause, indent) ==
    IF clause.Rule = "(" THEN indent + 1
    ELSE IF clause.Rule = ")" THEN indent - 1
    ELSE indent

(* for i, clause := range flat { ... }, appending to filter. *)
RECURSIVE grouped(_, _, _, _, _)
grouped(filter, flat, i, indent, connective) ==
    IF i > Len(flat) THEN filter
    ELSE grouped((IF connectiveDue(i, indent)
                  THEN Append(filter, Rule(connective)) ELSE filter) \o <<flat[i]>>,
                 flat, i + 1, indentAfter(flat[i], indent), connective)

And(clauses) ==
    Append(grouped(<<Rule("(")>>, flattened(<<>>, clauses, 1), 1, 0, "AND"), Rule(")"))

Or(clauses) ==
    Append(grouped(<<Rule("(")>>, flattened(<<>>, clauses, 1), 1, 0, "OR"), Rule(")"))

(* The filter list with the AND that FilterAnd and FilterOr put before    *)
(* their group when the list is not empty.                                 *)
(* A variant that puts the AND in front of the group in every case. *)
withAndAlways(filters) == Append(filters, Rule("AND"))

(* if len(query.Config.Filters) > 0 { append FilterClause{Rule: "AND"} } *)
withAnd(filters) == IF Len(filters) > 0 THEN Append(filters, Rule("AND")) ELSE filters

FilterAnd(config, clauses) ==
    [config EXCEPT !.Filters =
        Append(grouped(Append(withAnd(config.Filters), Rule("(")),
                       flattened(<<>>, clauses, 1), 1, 0, "AND"), Rule(")"))]

FilterOr(config, clauses) ==
    [config EXCEPT !.Filters =
        Append(grouped(Append(withAnd(config.Filters), Rule("(")),
                       flattened(<<>>, clauses, 1), 1, 0, "OR"), Rule(")"))]

joined(config, direction, table, clauses) ==
    [config EXCEPT !.Joins =
        Append(config.Joins, JoinClause(direction, flattened(<<>>, clauses, 1), table))]

Join(config, table, clauses) == joined(config, "INNER", table, clauses)

JoinFull(config, table, clauses) == joined(config, "FULL", table, clauses)

JoinLeft(config, table, clauses) == joined(config, "LEFT", table, clauses)

JoinRight(config, table, clauses) == joined(config, "RIGHT", table, clauses)

(***************************************************************************)
(* History: the nesting of the calls.  A token that a call of And, Or,     *)
(* FilterAnd or FilterOr adds (bracket or connective) or receives from an  *)
(* argument lies one call deeper than it did in the argument.              *)
(***************************************************************************)
Raised(nest) == [k \in DOMAIN nest |-> nest[k] + 1]

(* The arguments that are a clause or a clause sequence. *)
Contributing(clauses) == SelectSeq(clauses, LAMBDA c : c.kind # "other")

RECURSIVE SiblingNesting(_, _)
SiblingNesting(clauses, i) ==
    IF i > Len(clauses) THEN <<>>
    ELSE (IF i > 1 THEN <<1>> ELSE <<>>) \o Raised(clauses[i].nest)
         \o SiblingNesting(clauses, i + 1)

CallNesting(clauses) == <<1>> \o SiblingNesting(Contributing(clauses), 1) \o <<1>>

RECURSIVE ArgNesting(_, _)
ArgNesting(clauses, i) ==
    IF i > Len(clauses) THEN <<>>
    ELSE clauses[i].nest \o ArgNesting(clauses, i + 1)

(***************************************************************************)
(* Calls.                                                                  *)
(***************************************************************************)
FilterLeaves == {Q(Str("id"), "=", Val(1)), NotExists(Sql("SELECT 1", <<>>))}

(* The result of a call of And or Or, with its history. *)
Combined(op, clauses, calls) ==
    [op |-> op, clauses |-> clauses,
     filter |-> IF op = "And" THEN And(clauses) ELSE Or(clauses),
     nest |-> CallNesting(clauses), calls |-> calls]

(* What the caller can pass: a clause, a value that is no clause, or the   *)
(* result of the last call of And or Or.                                   *)
ArgInputs ==
    {ClauseArg(l) : l \in FilterLeaves} \cup {SkipArg}
    \cup {SequenceArg(c.filter, c.nest) : c \in {combined} \ {NoCombined}}

ArgLists == UNION {[1..n -> ArgInputs] : n \in 0..MaxArgs}

(* Results of calls of And and Or on clauses and on such results. *)
Groups ==
    {Combined(op, <<ClauseArg(Q(Str("id"), "=", Val(1))),
                    ClauseArg(Exists(Sql("SELECT 1", <<>>)))>>, 1) : op \in {"And", "Or"}}

Expressions ==
    Groups \cup
    {Combined(op, <<SequenceArg(g.filter, g.nest), a>>, 2) :
        op \in {"And", "Or"}, g \in Groups,
        a \in {ClauseArg(Q(Str("id"), "=", Val(1)))}
              \cup {SequenceArg(h.filter, h.nest) : h \in Groups}}

(* The argument lists of the builder calls: the expression and a clause   *)
(* in turn, MaxArgs arguments at most.                                     *)
QueryArgLists ==
    {[k \in 1..n |-> IF k % 2 = 1 THEN SequenceArg(combined.filter, combined.nest)
                     ELSE ClauseArg(Q(Str("id"), "=", Val(1)))] : n \in 0..MaxArgs}

filterIdle ==
    <<call, built, defaultDialect, explicit, sent, ret, migrateVars, registerVars, shareVars,
    sliceVars,
    orderVars>>

CombineInit ==
    /\ call = NoCall
    /\ built = NotBuilt
    /\ defaultDialect = ""
    /\ query = NewQuery("Accounts")
    /\ explicit = ""
    /\ sent = <<>>
    /\ ret = NoRet
    /\ steps = 0
    /\ migrationlogs = NoTable
    /\ run = NoRun
    /\ combined = NoCombined
    /\ nesting = NoNesting
    /\ registeredModels = NoModels
    /\ heap = <<>>
    /\ used = NoUse
    /\ goroutines = NoGoroutines
    /\ accesses = {}
    /\ declared = NoDeclared
    /\ cursor = NoCursor
    /\ prefetch = NoPrefetch

AndCall(clauses) ==
    /\ combined.calls < MaxCombine
    /\ \E c \in {Combined("And", clauses, combined.calls + 1)} :
          /\ Len(c.filter) <= MaxTokens
          /\ combined' = c
    /\ UNCHANGED <<query, steps, nesting, filterIdle>>

OrCall(clauses) ==
    /\ combined.calls < MaxCombine
    /\ \E c \in {Combined("Or", clauses, combined.calls + 1)} :
          /\ Len(c.filter) <= MaxTokens
          /\ combined' = c
    /\ UNCHANGED <<query, steps, nesting, filterIdle>>

CombineNext ==
    \/ \E clauses \in ArgLists : AndCall(clauses)
    \/ \E clauses \in ArgLists : OrCall(clauses)

SpecCombine == CombineInit /\ [][CombineNext]_vars

(* The builder methods on a new query; combined is an expression the      *)
(* caller has built with Q, Exists, NotExists, And and Or.                 *)
FilterInit ==
    /\ call = NoCall
    /\ built = NotBuilt
    /\ defaultDialect = ""
    /\ query = NewQuery("Accounts")
    /\ explicit = ""
    /\ sent = <<>>
    /\ ret = NoRet
    /\ steps = 0
    /\ migrationlogs = NoTable
    /\ run = NoRun
    /\ registeredModels = NoModels
    /\ heap = <<>>
    /\ used = NoUse
    /\ goroutines = NoGoroutines
    /\ accesses = {}
    /\ declared = NoDeclared
    /\ cursor = NoCursor
    /\ prefetch = NoPrefetch
    /\ combined \in Expressions
    /\ nesting = NoNesting

QueryCall(config) ==
    /\ steps < MaxFilterCalls
    /\ steps' = steps + 1
    /\ query' = [query EXCEPT !.Config = config]
    /\ UNCHANGED <<combined, filterIdle>>

FilterQ(l) ==
    /\ QueryCall(Filter(query.Config, l.Left, l.Operator, l.Right))
    /\ nesting' = [nesting EXCEPT !.filters =
                      @ \o (IF @ # <<>> THEN <<0>> ELSE <<>>) \o <<0>>]

FilterAndCall(clauses) ==
    /\ QueryCall(FilterAnd(query.Config, clauses))
    /\ nesting' = [nesting EXCEPT !.filters =
                      @ \o (IF @ # <<>> THEN <<0>> ELSE <<>>) \o CallNesting(clauses)]

FilterOrCall(clauses) ==
    /\ QueryCall(FilterOr(query.Config, clauses))
    /\ nesting' = [nesting EXCEPT !.filters =
                      @ \o (IF @ # <<>> THEN <<0>> ELSE <<>>) \o CallNesting(clauses)]

JoinCall(clauses) ==
    /\ QueryCall(Join(query.Config, "groups", clauses))
    /\ nesting' = [nesting EXCEPT !.joins = Append(@, ArgNesting(clauses, 1))]

JoinFullCall(clauses) ==
    /\ QueryCall(JoinFull(query.Config, "groups", clauses))
    /\ nesting' = [nesting EXCEPT !.joins = Append(@, ArgNesting(clauses, 1))]

JoinLeftCall(clauses) ==
    /\ QueryCall(JoinLeft(query.Config, "groups", clauses))
    /\ nesting' = [nesting EXCEPT !.joins = Append(@, ArgNesting(clauses, 1))]

JoinRightCall(clauses) ==
    /\ QueryCall(JoinRight(query.Config, "groups", clauses))
    /\ nesting' = [nesting EXCEPT !.joins = Append(@, ArgNesting(clauses, 1))]

FilterNext ==
    \/ \E l \in FilterLeaves : FilterQ(l)
    \/ \E clauses \in QueryArgLists : FilterAndCall(clauses)
    \/ \E clauses \in QueryArgLists : FilterOrCall(clauses)
    \/ \E clauses \in QueryArgLists : JoinCall(clauses)
    \/ \E clauses \in QueryArgLists : JoinFullCall(clauses)
    \/ \E clauses \in QueryArgLists : JoinLeftCall(clauses)
    \/ \E clauses \in QueryArgLists : JoinRightCall(clauses)

SpecFilter == FilterInit /\ [][FilterNext]_vars

(***************************************************************************)
(* Properties of And and Or (SpecCombine) and of the builder methods       *)
(* (SpecFilter).                                                           *)
(***************************************************************************)
(* The clauses of the arguments in argument order. *)
RECURSIVE Contributed(_, _)
Contributed(clauses, i) ==
    IF i > Len(clauses) THEN <<>>
    ELSE (IF clauses[i].kind = "other" THEN <<>> ELSE clauses[i].clauses)
         \o Contributed(clauses, i + 1)

(* The position of the close-group token that ends the group opened       *)
(* before position j, depth groups being open at j.                        *)
RECURSIVE GroupEnd(_, _, _)
GroupEnd(tokens, j, depth) ==
    IF j > Len(tokens) THEN Len(tokens)
    ELSE IF tokens[j].Rule = ")"
         THEN IF depth = 1 THEN j ELSE GroupEnd(tokens, j + 1, depth - 1)
         ELSE GroupEnd(tokens, j + 1, IF tokens[j].Rule = "(" THEN depth + 1 ELSE depth)

(* The top-level siblings of a token sequence from position i on, the     *)
(* sibling at i ending at position j: a whole bracket pair or one token.   *)
RECURSIVE Siblings(_, _)
SiblingsFrom(tokens, i, j) == <<SubSeq(tokens, i, j)>> \o Siblings(tokens, j + 1)

Siblings(tokens, i) ==
    IF i > Len(tokens) THEN <<>>
    ELSE SiblingsFrom(tokens, i,
                      IF tokens[i].Rule = "(" THEN GroupEnd(tokens, i + 1, 1) ELSE i)

(* The siblings in order with the connective between each two. *)
RECURSIVE JoinedBy(_, _, _)
JoinedBy(siblings, connective, i) ==
    IF i > Len(siblings) THEN <<>>
    ELSE (IF i > 1 THEN <<Rule(connective)>> ELSE <<>>) \o siblings[i]
         \o JoinedBy(siblings, connective, i + 1)

(* C15: And(args...) and Or(args...) return one open-group token, then the *)
(* clauses of the arguments in argument order (a clause itself, a sequence *)
(* its tokens, any other argument nothing) with the connective exactly     *)
(* once between each two consecutive top-level siblings and never inside a *)
(* nested bracket pair, then one close-group token.                        *)
C15_GroupOfSiblings ==
    combined.op # "" =>
        combined.filter =
            <<Rule("(")>>
            \o JoinedBy(Siblings(Contributed(combined.clauses, 1), 1),
                        IF combined.op = "And" THEN "AND" ELSE "OR", 1)
            \o <<Rule(")")>>

(* And was called on a bracketed group that holds an OR, followed by a    *)
(* clause.                                                                 *)
C15_Witness ==
    /\ combined.op = "And"
    /\ Len(combined.clauses) = 2
    /\ combined.clauses[1].kind = "[]FilterClause"
    /\ \E k \in DOMAIN combined.clauses[1].clauses :
          combined.clauses[1].clauses[k].Rule = "OR"
    /\ combined.clauses[2].kind = "FilterClause"

(* The running depth after each token; an open-group token counts before  *)
(* its own position, a close-group token after it.                         *)
RECURSIVE DepthProfile(_, _, _)
DepthProfile(tokens, i, depth) ==
    IF i > Len(tokens) THEN <<>>
    ELSE IF tokens[i].Rule = "(" THEN <<depth + 1>> \o DepthProfile(tokens, i + 1, depth + 1)
    ELSE IF tokens[i].Rule = ")" THEN <<depth>> \o DepthProfile(tokens, i + 1, depth - 1)
    ELSE <<depth>> \o DepthProfile(tokens, i + 1, depth)

(* The number of tokens with the given rule among the first n. *)
CountRule(tokens, rule, n) == Cardinality({k \in 1..n : tokens[k].Rule = rule})

WellBracketed(tokens) ==
    /\ \A n \in DOMAIN tokens : CountRule(tokens, ")", n) <= CountRule(tokens, "(", n)
    /\ CountRule(tokens, ")", Len(tokens)) = CountRule(tokens, "(", Len(tokens))

(* C16: after any sequence of Filter, FilterAnd, FilterOr, Join, JoinLeft, *)
(* JoinRight and JoinFull calls with arguments built by Q, Exists,         *)
(* NotExists, And and Or, the filter list and the ON list of every join    *)
(* are well-bracketed, and the depth of every token equals the nesting of  *)
(* the combinator calls that produced it.                                  *)
C16_WellBracketedNesting ==
    /\ WellBracketed(query.Config.Filters)
    /\ DepthProfile(query.Config.Filters, 1, 0) = nesting.filters
    /\ Len(query.Config.Joins) = Len(nesting.joins)
    /\ \A j \in DOMAIN query.Config.Joins :
          /\ WellBracketed(query.Config.Joins[j].On)
          /\ DepthProfile(query.Config.Joins[j].On, 1, 0) = nesting.joins[j]

(* A filter list holding a token three calls deep, built after a join on  *)
(* a nested group, or the other way round.                                 *)
C16_Witness ==
    /\ steps = 2
    /\ \E k \in DOMAIN nesting.filters : nesting.filters[k] = 3
    /\ Len(query.Config.Joins) = 1
    /\ \E k \in DOMAIN nesting.joins[1] : nesting.joins[1][k] = 2

(* The depth of every token of a result of And or Or equals the nesting   *)
(* of the calls that produced it.                                          *)
CombinedNesting ==
    /\ WellBracketed(combined.filter)
    /\ DepthProfile(combined.filter, 1, 0) = combined.nest

(***************************************************************************)
(* Register and Use with configurations.                                   *)
(*   registeredModels  the package's map from key to *Model                *)
(*   heap              the descriptors allocated so far; a *Model is a     *)
(*                     position of this sequence                           *)
(*   used              history: the last call of Register or Use, the      *)
(*                     pointer it returned, the number of descriptors and  *)
(*                     the registry before the call, and in used.log the   *)
(*                     Register calls so far                               *)
(***************************************************************************)
MaxUses == 3

Config(table) == [Table |-> table]

(* fmt.Sprintf("%+v", config) *)
ConfigString(config) == "{Table:" \o config.Table \o "}"

(* reflect.Type.String() of a type of package rem: the package and the    *)
(* declared name, also for a type declared inside a function.              *)
TypeString(T) == "rem." \o TypeName(T)

(* The type assertion of the entry found: the descriptor m if it is a      *)
(* descriptor of T; the assertion panics otherwise and Use returns none.   *)
NoModel == 0

asserted(T, models, m) == IF models[m].Type = T THEN m ELSE NoModel

RECURSIVE modelTypeStr(_, _, _)
modelTypeStr(str, configs, i) ==
    IF i > Len(configs) THEN str
    ELSE modelTypeStr(str \o ConfigString(configs[i]), configs, i + 1)

(* The table name: the lower-cased type name unless a configuration names *)
(* a table; the last one that does wins.                                   *)
RECURSIVE configuredTable(_, _, _)
configuredTable(table, configs, i) ==
    IF i > Len(configs) THEN table
    ELSE configuredTable(IF configs[i].Table # "" THEN configs[i].Table ELSE table,
                         configs, i + 1)

(* Use[T](configs...): the pointer returned and the heap after the call. *)
usedModel(T, configs, models, registered) ==
    IF modelTypeStr(TypeString(T), configs, 1) \in DOMAIN registered
    THEN [got |-> asserted(T, models, registered[modelTypeStr(TypeString(T), configs, 1)]),
          heap |-> models]
    ELSE [got |-> Len(models) + 1,
          heap |-> Append(models, [Use(T) EXCEPT
                                      !.Table = configuredTable(@, configs, 1)])]

ConfigLists ==
    { <<>>, <<Config("a")>>, <<Config("b")>>, <<Config("a"), Config("b")>>,
      <<Config("a}{Table:b")>> }

registerIdle == <<call, built, defaultDialect, query, explicit, sent, ret, steps,
                  migrateVars, filterVars, shareVars,
    sliceVars,
    orderVars>>

RegisterInit ==
    /\ call = NoCall
    /\ built = NotBuilt
    /\ defaultDialect = ""
    /\ query = NewQuery("Accounts")
    /\ explicit = ""
    /\ sent = <<>>
    /\ ret = NoRet
    /\ steps = 0
    /\ migrationlogs = NoTable
    /\ run = NoRun
    /\ combined = NoCombined
    /\ nesting = NoNesting
    /\ registeredModels = NoModels
    /\ heap = <<>>
    /\ used = NoUse
    /\ goroutines = NoGoroutines
    /\ accesses = {}
    /\ declared = NoDeclared
    /\ cursor = NoCursor
    /\ prefetch = NoPrefetch

(* The history after a call that returned m. *)
Used(op, T, configs, m, log) ==
    [op |-> op, T |-> T, configs |-> configs, got |-> m, models |-> Len(heap),
     registered |-> registeredModels, log |-> log, calls |-> used.calls + 1]

UseCall(T, configs) ==
    /\ used.calls < MaxUses
    /\ \E u \in {usedModel(T, configs, heap, registeredModels)} :
          /\ heap' = u.heap
          /\ used' = Used("Use", T, configs, u.got, used.log)
    /\ UNCHANGED <<registeredModels, registerIdle>>

RegisterCall(T, configs) ==
    /\ used.calls < MaxUses
    /\ \E u \in {usedModel(T, configs, heap, registeredModels)} :
          /\ heap' = u.heap
          /\ registeredModels' =
                IF u.got = NoModel THEN registeredModels
                ELSE [key \in DOMAIN registeredModels
                                \cup {modelTypeStr(TypeString(T), configs, 1)} |->
                         IF key = modelTypeStr(TypeString(T), configs, 1) THEN u.got
                         ELSE registeredModels[key]]
          /\ used' = Used("Register", T, configs, u.got,
                          IF u.got = NoModel THEN used.log
                          ELSE used.log \cup {[T |-> T, configs |-> configs, got |-> u.got]})
    /\ UNCHANGED registerIdle

RegisterNext ==
    \/ \E T \in ModelTypes, configs \in ConfigLists : UseCall(T, configs)
    \/ \E T \in ModelTypes, configs \in ConfigLists : RegisterCall(T, configs)

SpecRegister == RegisterInit /\ [][RegisterNext]_vars

(***************************************************************************)
(* Properties of Register and Use (SpecRegister).                          *)
(***************************************************************************)
(* The Register calls so far for the type and configurations of the last  *)
(* call, and those for its type with other configurations.                 *)
SameConfiguration == {h \in used.log : h.T = used.T /\ h.configs = used.configs}

OtherConfiguration == {h \in used.log : h.T = used.T /\ h.configs # used.configs}

(* Every call for a registered type and configuration returns the         *)
(* descriptor that the first Register returned.                            *)
RegisteredReturned == \A h \in SameConfiguration : used.got = h.got

(* No entry of the registry is replaced or removed. *)
EntriesKept ==
    \A key \in DOMAIN used.registered :
        key \in DOMAIN registeredModels /\ registeredModels[key] = used.registered[key]

(* Use with a configuration other than a registered one returns another   *)
(* descriptor.                                                             *)
OtherConfigurationOtherModel ==
    used.op = "Use" => \A h \in OtherConfiguration : used.got # h.got

(* Use without an earlier Register of its configuration returns a new     *)
(* descriptor and leaves the registry as it was.                           *)
UnregisteredFresh ==
    (used.op = "Use" /\ SameConfiguration = {}) =>
        /\ used.got = used.models + 1
        /\ Len(heap) = used.models + 1
        /\ registeredModels = used.registered

(* C17: after Register[T](cfg), every later Use[T](cfg) and                *)
(* Register[T](cfg) returns the descriptor the first Register returned and *)
(* no registry entry is replaced or removed; Use[T] with a different       *)
(* configuration returns a different descriptor; Use[T](cfg) with no       *)
(* earlier Register returns a fresh descriptor and caches nothing.         *)
C17_RegistryByConfiguration ==
    /\ RegisteredReturned
    /\ EntriesKept
    /\ OtherConfigurationOtherModel
    /\ UnregisteredFresh

(* The descriptor a call returns has the table its configurations name. *)
ReturnedTableConfigured ==
    used.op # "" =>
        heap[used.got].Table = configuredTable(ToLower(used.T), used.configs, 1)

(* Use never writes the registry. *)
UseKeepsRegistry == used.op = "Use" => registeredModels = used.registered

(***************************************************************************)
(* Properties of the statements compiled by equal builders (Spec).         *)
(***************************************************************************)
(* What a builder in the state q can do when the method op is called with *)
(* the arguments in.                                                       *)
OutcomesOf(op, q, dflt, in) ==
    CASE op = "All" -> AllOutcomes(q, dflt, in)
      [] op = "AllToMap" -> AllToMapOutcomes(q, dflt, in)
      [] op = "First" -> FirstOutcomes(q, dflt, in)
      [] op = "FirstToMap" -> FirstToMapOutcomes(q, dflt, in)
      [] op = "Count" -> CountOutcomes(q, dflt, in)
      [] op = "Exists" -> ExistsOutcomes(q, dflt, in)
      [] op = "Delete" -> DeleteOutcomes(q, dflt, in)
      [] op = "Insert" -> InsertOutcomes(q, dflt, in)
      [] op = "InsertMap" -> InsertMapOutcomes(q, dflt, in)
      [] op = "Update" -> UpdateOutcomes(q, dflt, in)
      [] op = "UpdateMap" -> UpdateMapOutcomes(q, dflt, in)
      [] OTHER -> {}

(* SQL text and arguments of the statements sent. *)
Compiled(statements) ==
    [i \in DOMAIN statements |-> <<statements[i].sql, statements[i].args>>]

(* Every builder equal to the one that executed compiles the statements   *)
(* that were sent.                                                         *)
SameCompiled ==
    \A o \in OutcomesOf(ret.op, query, defaultDialect, ret.in) :
        Compiled(o.sent) = Compiled(sent)

(* C18: two fresh builders given identical calls compile byte-identical    *)
(* SQL text and identical argument lists, for SELECT and DELETE and also   *)
(* for Insert, InsertMap, Update and UpdateMap.                            *)
C18_SameCallsSameStatement ==
    (ret # NoRet /\ ret.err # ErrPanic) => SameCompiled

(* The methods that take their column order from the caller or from the   *)
(* query compile the same statements in equal builders.                    *)
OrderedColumnsSameStatement ==
    (ret # NoRet /\ ret.err # ErrPanic
       /\ ret.op \notin {"Insert", "InsertMap", "UpdateMap"}) => SameCompiled

(***************************************************************************)
(* Model.SqlAll and Model.SqlAllToMap: a statement written by the caller,  *)
(* sent with db.Query, its rows read through a Query that holds only the   *)
(* model and the rows.                                                     *)
(***************************************************************************)
RawSelect == BuildResult(<<"SELECT * FROM accounts">>, <<>>, NoErr)

SqlAllOutcomes(T, dflt, in) ==
    IF in.dbErr
    THEN {Outcome(NewQuery(T), <<dbQuery(NewQuery(T), RawSelect, "")>>,
                  Ret("SqlAll", ErrDriver, <<>>, in))}
    ELSE {[o EXCEPT !.ret.op = "SqlAll"] :
             o \in slice(NewQuery(T), dflt, rowsOpened(dbQuery(NewQuery(T), RawSelect, "")), in)}

SqlAllToMapOutcomes(T, dflt, in) ==
    IF in.dbErr
    THEN {Outcome(NewQuery(T), <<dbQuery(NewQuery(T), RawSelect, "")>>,
                  Ret("SqlAllToMap", ErrDriver, <<>>, in))}
    ELSE {Outcome(NewQuery(T), <<rowsClose(rowsOpened(dbQuery(NewQuery(T), RawSelect, "")))>>,
                  Ret("SqlAllToMap", NoErr, in.result, in))}

(* A method of the model returns outcome o; the Query is left alone. *)
ModelExecuted(o) ==
    /\ steps' = steps + 1
    /\ sent' = o.sent
    /\ ret' = o.ret
    /\ UNCHANGED <<call, built, defaultDialect, query, explicit, queryIdle>>

SqlAll ==
    /\ Ready
    /\ \E in \in Answers(ResultSets(query.Model, MaxRows)) :
           /\ in.dbErr => in.result = <<>>
           /\ ~in.done
           /\ \E o \in SqlAllOutcomes(query.Model, defaultDialect, in) : ModelExecuted(o)

SqlAllToMap ==
    /\ Ready
    /\ \E in \in Answers(ResultSets(query.Model, MaxRows)) :
           /\ in.dbErr => in.result = <<>>
           /\ ~in.done
           /\ \E o \in SqlAllToMapOutcomes(query.Model, defaultDialect, in) : ModelExecuted(o)

(* A program that calls the methods of Query and these two. *)
SqlNext == Next \/ SqlAll \/ SqlAllToMap

SpecSql == Init /\ [][SqlNext]_vars

(***************************************************************************)
(* Properties of the result cursors (Spec, SpecSql).                       *)
(***************************************************************************)
(* The statements whose cursor is open. *)
OpenCursors == {i \in DOMAIN sent : sent[i].cursor = "open"}

CursorMethods == {"All", "AllToMap", "First", "FirstToMap", "Exists", "SqlAll", "SqlAllToMap"}

(* C19: every result cursor opened by All, AllToMap, First, FirstToMap,    *)
(* Exists, SqlAll or SqlAllToMap is closed when the method returns, with   *)
(* or without an error.                                                    *)
C19_CursorsClosedOnReturn ==
    (ret.op \in CursorMethods /\ ret.err # ErrPanic) => OpenCursors = {}

(* Every method but Exists closes its cursors, also when it panics. *)
CursorsClosedUnlessExists ==
    (ret.op \in CursorMethods \ {"Exists"}) => OpenCursors = {}

(* Exists leaves its cursor open exactly when the statement has a row. *)
ExistsLeavesCursorOpen ==
    (ret.op = "Exists" /\ ret.err = NoErr) =>
        (OpenCursors # {} <=> Len(ret.in.result) > 0)

(***************************************************************************)
(* Goroutines that share a model descriptor.  The library takes no lock    *)
(* and sends on no channel, so accesses of different goroutines are not    *)
(* ordered; what main does before it starts the goroutines is ordered      *)
(* before them.                                                            *)
(*   goroutines   for each goroutine: the *Model it holds and the number   *)
(*                of its calls; every execution makes its own Query        *)
(*   accesses     history: the memory accesses of the goroutines, a write  *)
(*                with the call that made it                               *)
(***************************************************************************)
MaxGoroutines == 2
MaxGoCalls == 2

PackageVar(name) == [space |-> "package", id |-> 0, field |-> name]

ModelField(m, field) == [space |-> "model", id |-> m, field |-> field]

QueryField(g, field) == [space |-> "query", id |-> g, field |-> field]

ModelFieldNames == {"Fields", "PrimaryColumn", "PrimaryField", "Table", "Type"}

Reads(g, locs) == {[g |-> g, op |-> "", loc |-> l, write |-> FALSE] : l \in locs}

Writes(g, op, locs) == {[g |-> g, op |-> op, loc |-> l, write |-> TRUE] : l \in locs}

(* Use: the lookup in the registry; without an entry, the composite       *)
(* literal of the new descriptor m.                                        *)
useAccesses(g, hit, m) ==
    Reads(g, {PackageVar("registeredModels")})
    \cup (IF hit THEN {} ELSE Writes(g, "Use", {ModelField(m, f) : f \in ModelFieldNames}))

(* Model.Query and a builder method of the new Query. *)
queryAccesses(g, op) == Writes(g, op, {QueryField(g, "Model"), QueryField(g, "Config")})

detectDialectAccesses(g, op) ==
    Reads(g, {QueryField(g, "dialect"), PackageVar("defaultDialect")})
    \cup Writes(g, op, {QueryField(g, "dialect")})

(* A variant of configure that writes the table name to the descriptor. *)
configureWritesModel(g, op, m) ==
    Reads(g, {QueryField(g, "Model"), ModelField(m, "Fields")})
    \cup Writes(g, op, {QueryField(g, "Config"), ModelField(m, "Table")})

configureAccesses(g, op, m) ==
    Reads(g, {QueryField(g, "Model"), ModelField(m, "Fields"), ModelField(m, "Table")})
    \cup Writes(g, op, {QueryField(g, "Config")})

(* BuildSelect or BuildInsert on the Config, whose Fields is the map of   *)
(* the descriptor, and the statement sent.                                 *)
buildAccesses(g, op, m) ==
    Reads(g, {QueryField(g, "Config"), QueryField(g, "dialect"), ModelField(m, "Fields")})

(* slice: Rows, Scan of each row, the primary field of the prefetch. *)
sliceAccesses(g, op, m) ==
    Writes(g, op, {QueryField(g, "Rows")})
    \cup Reads(g, {QueryField(g, "Rows"), QueryField(g, "Model"), QueryField(g, "Config"),
                       ModelField(m, "Fields"), ModelField(m, "PrimaryField")})

toMapAccesses(g, op, m) ==
    Reads(g, {QueryField(g, "Model"), ModelField(m, "Fields"), ModelField(m, "Table")})

allAccesses(g, m) ==
    queryAccesses(g, "All") \cup detectDialectAccesses(g, "All") \cup configureAccesses(g, "All", m)
    \cup buildAccesses(g, "All", m) \cup sliceAccesses(g, "All", m)

insertAccesses(g, m) ==
    queryAccesses(g, "Insert") \cup detectDialectAccesses(g, "Insert") \cup configureAccesses(g, "Insert", m)
    \cup toMapAccesses(g, "Insert", m) \cup buildAccesses(g, "Insert", m)

Goroutines == 1..MaxGoroutines

shareIdle == <<call, built, defaultDialect, query, explicit, sent, ret, steps,
               migrateVars, filterVars, used,
    sliceVars,
    orderVars>>

(* main has set the default dialect, built the descriptor of Accounts     *)
(* with Use or with Register, and started the goroutines with it.          *)
ShareInit ==
    /\ call = NoCall
    /\ built = NotBuilt
    /\ defaultDialect = "pq"
    /\ query = NewQuery("Accounts")
    /\ explicit = ""
    /\ sent = <<>>
    /\ ret = NoRet
    /\ steps = 0
    /\ migrationlogs = NoTable
    /\ run = NoRun
    /\ combined = NoCombined
    /\ nesting = NoNesting
    /\ registeredModels \in {NoModels, [key \in {modelTypeStr(TypeString("Accounts"), <<>>, 1)} |-> 1]}
    /\ heap = <<Use("Accounts")>>
    /\ used = NoUse
    /\ goroutines = [g \in Goroutines |-> [model |-> 1, calls |-> 0]]
    /\ accesses = {}
    /\ declared = NoDeclared
    /\ cursor = NoCursor
    /\ prefetch = NoPrefetch

GoCall(g, model, made) ==
    /\ goroutines[g].calls < MaxGoCalls
    /\ goroutines' = [goroutines EXCEPT ![g] = [model |-> model, calls |-> @.calls + 1]]
    /\ accesses' = accesses \cup made
    /\ UNCHANGED shareIdle

GoUse(g) ==
    /\ \E u \in {usedModel("Accounts", <<>>, heap, registeredModels)} :
          /\ Len(u.heap) <= MaxUses
          /\ heap' = u.heap
          /\ GoCall(g, u.got, useAccesses(g, u.heap = heap, u.got))
    /\ UNCHANGED registeredModels

(* Model.All: a new Query of the descriptor, executed. *)
GoAll(g) ==
    /\ GoCall(g, goroutines[g].model, allAccesses(g, goroutines[g].model))
    /\ UNCHANGED <<registeredModels, heap>>

(* Model.Insert: a new Query of the descriptor, executed. *)
GoInsert(g) ==
    /\ GoCall(g, goroutines[g].model, insertAccesses(g, goroutines[g].model))
    /\ UNCHANGED <<registeredModels, heap>>

ShareNext ==
    \E g \in Goroutines : GoUse(g) \/ GoAll(g) \/ GoInsert(g)

SpecShare == ShareInit /\ [][ShareNext]_vars

(***************************************************************************)
(* Properties of the goroutines (SpecShare).                               *)
(***************************************************************************)
(* The writes so far. *)
WriteAccesses == {a \in accesses : a.write}

(* No location is written by one goroutine and read or written by        *)
(* another.                                                                *)
NoConflict == \A a \in WriteAccesses : \A b \in accesses : b.loc = a.loc => b.g = a.g

(* The writes to a descriptor are those of the Use that builds it; the    *)
(* descriptor that main built is not written.                              *)
DescriptorNeverWritten ==
    \A a \in WriteAccesses : a.loc.space = "model" => (a.op = "Use" /\ a.loc.id # 1)

UseReadsRegistry ==
    \A a \in accesses : a.loc = PackageVar("registeredModels") => ~a.write

(* C20: a descriptor is never written after it is built and Use never     *)
(* writes the registry; goroutines that call Use, build queries and        *)
(* execute them on one shared descriptor, each with its own Query, never   *)
(* write, or read and write, the same state.                               *)
C20_NoConflictingAccess ==
    /\ DescriptorNeverWritten
    /\ UseReadsRegistry
    /\ NoConflict

(* Two goroutines have executed queries on the shared descriptor and one  *)
(* of them has called Use.                                                 *)
C20_Witness ==
    /\ \E a, b \in accesses :
          /\ a.g # b.g
          /\ a.loc = ModelField(1, "Fields") /\ b.loc = a.loc
    /\ \E a, b \in WriteAccesses : a.g # b.g /\ a.op = "All" /\ b.op = "Insert"
    /\ \E a \in accesses : a.loc = PackageVar("registeredModels")

(***************************************************************************)
(* Query.All and Query.AllToMap, row by row.  The caller's context can be  *)
(* cancelled by another goroutine at any moment of the call.  A statement  *)
(* sent with QueryContext has its rows closed by database/sql once the     *)
(* context is done, after which Rows.Next reports no further row.          *)
(***************************************************************************)
MaxReads == 2

cursorIdle == <<call, built, defaultDialect, query, explicit, sent, ret, steps,
                migrateVars, filterVars, registerVars, shareVars, prefetch, orderVars>>

CursorInit ==
    /\ call = NoCall
    /\ built = NotBuilt
    /\ defaultDialect = "pq"
    /\ query = NewQuery("Accounts")
    /\ explicit = ""
    /\ sent = <<>>
    /\ ret = NoRet
    /\ steps = 0
    /\ migrationlogs = NoTable
    /\ run = NoRun
    /\ combined = NoCombined
    /\ nesting = NoNesting
    /\ registeredModels = NoModels
    /\ heap = <<>>
    /\ used = NoUse
    /\ goroutines = NoGoroutines
    /\ accesses = {}
    /\ declared = NoDeclared
    /\ cursor = NoCursor
    /\ prefetch = NoPrefetch

(* The select statement on the context: one receive that does not wait. *)
contextCheck(c) == [rows |-> Len(c.rows), done |-> c.done]

(* A variant of the loop body that looks at the context after every row. *)
rowScannedPolling(c, row) ==
    IF c.context /\ c.done
    THEN [c EXCEPT !.checks = Append(@, contextCheck(c)), !.err = ErrContext,
                   !.pc = "returned"]
    ELSE [c EXCEPT !.rows = Append(@, row),
                   !.checks = IF c.context THEN Append(@, contextCheck(c)) ELSE @]

(* The body of the loop over Rows.Next: the row is appended. *)
rowScanned(c, row) == [c EXCEPT !.rows = Append(@, row)]

(* The rows are read: All goes on with the prefetch, then the context. *)
rowsDrained(c) ==
    [c EXCEPT !.pc = IF c.op = "All" /\ c.fetchRelated /\ Len(c.rows) > 0
                     THEN "related" ELSE "context"]

(* The end of All and of AllToMap. *)
contextChecked(c) ==
    IF ~c.context THEN [c EXCEPT !.pc = "returned", !.returned = c.rows]
    ELSE IF c.done
    THEN [c EXCEPT !.pc = "returned", !.checks = Append(@, contextCheck(c)),
                   !.err = ErrContext]
    ELSE [c EXCEPT !.pc = "returned", !.checks = Append(@, contextCheck(c)),
                   !.returned = c.rows]

(* The call up to query.Rows = rows.  QueryContext returns the context's   *)
(* error, and no rows, when the context is done before the statement runs. *)
ReadCall(op, context, done, fetchRelated, result) ==
    /\ cursor.pc = "idle"
    /\ cursor.calls < MaxReads
    /\ cursor' = [NoCursor EXCEPT !.op = op, !.context = context, !.done = done,
                                  !.fetchRelated = fetchRelated, !.result = result,
                                  !.pc = IF done THEN "returned" ELSE "rows",
                                  !.err = IF done THEN ErrContext ELSE NoErr,
                                  !.calls = cursor.calls + 1]
    /\ UNCHANGED cursorIdle

AllRows ==
    \E context, fetchRelated \in BOOLEAN, result \in ResultSets("Accounts", MaxRows) :
        \E done \in {FALSE, context} :
            ReadCall("All", context, done, fetchRelated, result)

AllToMapRows ==
    \E context \in BOOLEAN, result \in ResultSets("Accounts", MaxRows) :
        \E done \in {FALSE, context} :
            ReadCall("AllToMap", context, done, FALSE, result)

(* Another goroutine calls the cancel function of the context. *)
Cancel ==
    /\ cursor.pc \in {"rows", "related", "context"}
    /\ cursor.context /\ ~cursor.done
    /\ cursor' = [cursor EXCEPT !.done = TRUE]
    /\ UNCHANGED cursorIdle

(* database/sql closes the rows of a statement whose context is done. *)
RowsClosed ==
    /\ cursor.pc = "rows"
    /\ cursor.context /\ cursor.done /\ ~cursor.closed
    /\ cursor' = [cursor EXCEPT !.closed = TRUE]
    /\ UNCHANGED cursorIdle

(* One Rows.Next with its loop body, or the end of the loop. *)
RowsNext ==
    /\ cursor.pc = "rows"
    /\ cursor' =
          IF ~cursor.closed /\ Len(cursor.rows) < Len(cursor.result)
          THEN LET data == cursor.result[Len(cursor.rows) + 1]
               IN rowScanned(cursor, IF cursor.op = "All" THEN ScanMap("Accounts", data)
                                     ELSE data)
          ELSE rowsDrained(cursor)
    /\ UNCHANGED cursorIdle

(* The related Queries of Query.slice: they carry no context. *)
RelatedRead ==
    /\ cursor.pc = "related"
    /\ cursor' = [cursor EXCEPT !.pc = "context"]
    /\ UNCHANGED cursorIdle

ContextChecked ==
    /\ cursor.pc = "context"
    /\ cursor' = contextChecked(cursor)
    /\ UNCHANGED cursorIdle

ReadReturn ==
    /\ cursor.pc = "returned"
    /\ cursor' = [NoCursor EXCEPT !.calls = cursor.calls]
    /\ UNCHANGED cursorIdle

CursorNext ==
    \/ AllRows
    \/ AllToMapRows
    \/ Cancel
    \/ RowsClosed
    \/ RowsNext
    \/ RelatedRead
    \/ ContextChecked
    \/ ReadReturn

SpecCursor == CursorInit /\ [][CursorNext]_vars

(* The rows of the database's answer as the call returns them. *)
Materialized ==
    [i \in DOMAIN cursor.result |->
        IF cursor.op = "All" THEN ScanMap("Accounts", cursor.result[i]) ELSE cursor.result[i]]

(* The call has read its rows and has returned. *)
RowsReadAndReturned ==
    cursor.pc = "returned" /\ cursor.context /\ cursor.checks # <<>>

RowsReturnedUnlessDone ==
    /\ RowsReadAndReturned
    /\ ~cursor.done /\ Len(cursor.returned) = MaxRows

(***************************************************************************)
(* Properties of the prefetch of Query.slice (Spec).                       *)
(***************************************************************************)
(* The identifiers that the primary rows of the answer carry for relation  *)
(* name: the non-NULL foreign keys (to-one), the rows' own keys (to-many). *)
Identifiers(T, name, result) ==
    IF relationKind(T, name) = "fk"
    THEN {result[i][FieldByName(T, name).db] : i \in DOMAIN result} \ {Nil}
    ELSE {result[i][Use(T).PrimaryColumn] : i \in DOMAIN result}

NoDuplicates(seq) == \A i, j \in DOMAIN seq : seq[i] = seq[j] => i = j

(* C22: the value list of the IN filter of every follow-up query holds     *)
(* each identifier of the primary rows exactly once.                       *)
C22_DistinctIdentifiers ==
    AllPrefetched =>
        \A i \in DOMAIN sent :
            sent[i].related # "" =>
                /\ Range(sent[i].args) = Identifiers(query.Model, sent[i].related, ret.in.result)
                /\ NoDuplicates(sent[i].args)

(* The value list holds the identifiers of the primary rows and no other   *)
(* value, one entry for each row that carries one and for each time the    *)
(* relation is named.                                                      *)
IdentifiersOfEveryRow ==
    AllPrefetched =>
        \A i \in DOMAIN sent :
            sent[i].related # "" =>
                /\ Range(sent[i].args) = Identifiers(query.Model, sent[i].related, ret.in.result)
                /\ Len(sent[i].args) =
                      Occurrences(query.Config.FetchRelated, sent[i].related)
                      * Cardinality({k \in DOMAIN ret.in.result :
                            relationKind(query.Model, sent[i].related) = "fk"
                                => ret.in.result[k][FieldByName(query.Model, sent[i].related).db] # Nil})

(* Two accounts of the same group: the group's key is listed twice. *)
IdentifierListedTwice ==
    /\ AllPrefetched
    /\ query.Config.FetchRelated = <<"Group">>
    /\ \E i \in DOMAIN sent : sent[i].related = "Group" /\ ~NoDuplicates(sent[i].args)

(***************************************************************************)
(* Query.slice, the rows of a relation put into the primary rows.  The     *)
(* result of a step is the row, or a panic of the reflect package:         *)
(* Value.FieldByName of a name the struct does not have gives the zero     *)
(* Value, and Interface() on the zero Value panics.                        *)
(***************************************************************************)
Stitched(row) == [panic |-> FALSE, row |-> row]

StitchPanic(row) == [panic |-> TRUE, row |-> row]

(* strings.HasPrefix(fk.Type().String(), "*rem.OneToMany["): the loop over *)
(* the batched rows, from the j-th.                                        *)
RECURSIVE stitchOneToMany(_, _, _, _, _, _)
stitchOneToMany(T, column, rpk, row, batched, j) ==
    IF j > Len(batched) THEN Stitched(row)
    ELSE IF Use(FieldByName(T, column).To).PrimaryField
               \notin DOMAIN batched[j][rpk.RelatedField].Row
    THEN StitchPanic(row)
    ELSE stitchOneToMany(T, column, rpk,
             IF row[Use(T).PrimaryField]
                   = batched[j][rpk.RelatedField].Row[Use(FieldByName(T, column).To).PrimaryField]
             THEN [row EXCEPT ![column].Rows = Append(@, batched[j])]
             ELSE row,
             batched, j + 1)

(* valueFk.FieldByName("Valid"): the loop over the batched rows, left at   *)
(* the first match.                                                        *)
RECURSIVE stitchForeignKey(_, _, _, _, _)
stitchForeignKey(T, column, row, batched, j) ==
    IF j > Len(batched) THEN Stitched(row)
    ELSE IF Use(T).PrimaryField \notin DOMAIN row[column].Row
    THEN StitchPanic(row)
    ELSE IF row[column].Row[Use(T).PrimaryField]
               = batched[j][Use(FieldByName(T, column).To).PrimaryField]
    THEN Stitched([row EXCEPT ![column].Row = batched[j]])
    ELSE stitchForeignKey(T, column, row, batched, j + 1)

stitchRow(T, column, rpk, row, batched) ==
    IF IsOneToMany(FieldByName(T, column).Type)
    THEN stitchOneToMany(T, column, rpk, row, batched, 1)
    ELSE IF row[column].Valid THEN stitchForeignKey(T, column, row, batched, 1)
    ELSE Stitched(row)

(* The loop over the primary rows, from the i-th. *)
RECURSIVE stitchRows(_, _, _, _, _, _)
stitchRows(T, column, rpk, rows, batched, i) ==
    IF i > Len(rows) THEN [panic |-> FALSE, rows |-> rows]
    ELSE LET r == stitchRow(T, column, rpk, rows[i], batched)
         IN IF r.panic THEN [panic |-> TRUE, rows |-> rows]
            ELSE stitchRows(T, column, rpk, [rows EXCEPT ![i] = r.row], batched, i + 1)

(* The part of Query.slice after its loop over Rows.Next, for one relation *)
(* name: batched is what All of the related Query returns.                 *)
sliceRelated(T, column, rows, batched) ==
    LET rpk == relatedPk(T, rows, <<column>>, column)
    IN IF Len(rpk.RelatedValues) > 0
       THEN [queried |-> TRUE, r |-> stitchRows(T, column, rpk, rows, batched, 1)]
       ELSE [queried |-> FALSE, r |-> [panic |-> FALSE, rows |-> rows]]

(* Inputs: the rows of a model that refers to another (Accounts, Members), *)
(* keys 1.., with the key referred to or NULL; and the rows of the model   *)
(* referred to (Groups, Teams), keys 10 and 20.                            *)
RelationPairs ==
    {[T |-> "Accounts", column |-> "Group"], [T |-> "Groups", column |-> "Accounts"],
     [T |-> "Members", column |-> "Team"], [T |-> "Teams", column |-> "Members"]}

Referring(T) == T \in {"Accounts", "Members"}

ReferringColumn(T) == IF T = "Accounts" THEN "group_id" ELSE "team_id"

ReferredKeys == {10, 20}

relationData(T, nullable) ==
    IF Referring(T)
    THEN {[c \in {Use(T).PrimaryColumn, ReferringColumn(T)} |->
              IF c = Use(T).PrimaryColumn THEN i ELSE g] :
             i \in 1..MaxRows, g \in ReferredKeys \cup (IF nullable THEN {Nil} ELSE {})}
    ELSE {[c \in {Use(T).PrimaryColumn} |-> k] : k \in ReferredKeys}

(* The answers with no key twice, of at most MaxRows rows. *)
relationAnswers(T, nullable) ==
    LET D == relationData(T, nullable)
        pc == Use(T).PrimaryColumn
    IN UNION {{a \in [1..n -> D] : \A i, j \in 1..n : a[i][pc] = a[j][pc] => i = j} :
                 n \in 0..MaxRows}

relationAnswersOf ==
    [T \in {p.T : p \in RelationPairs} |->
        [nullable \in BOOLEAN |->
            {[i \in DOMAIN a |-> ScanMap(T, a[i])] : a \in relationAnswers(T, nullable)}]]

prefetchIdle == <<call, built, defaultDialect, query, explicit, sent, ret, steps,
                  migrateVars, filterVars, registerVars, shareVars, cursor, orderVars>>

PrefetchInit ==
    /\ call = NoCall
    /\ built = NotBuilt
    /\ defaultDialect = "pq"
    /\ query = NewQuery("Accounts")
    /\ explicit = ""
    /\ sent = <<>>
    /\ ret = NoRet
    /\ steps = 0
    /\ migrationlogs = NoTable
    /\ run = NoRun
    /\ combined = NoCombined
    /\ nesting = NoNesting
    /\ registeredModels = NoModels
    /\ heap = <<>>
    /\ used = NoUse
    /\ goroutines = NoGoroutines
    /\ accesses = {}
    /\ declared = NoDeclared
    /\ cursor = NoCursor
    /\ \E p \in RelationPairs :
          \E rows \in relationAnswersOf[p.T][TRUE],
             batched \in relationAnswersOf[FieldByName(p.T, p.column).To][FALSE] :
              prefetch = [NoPrefetch EXCEPT !.pc = "rows", !.T = p.T, !.column = p.column,
                                            !.rows = rows, !.batched = batched]

SliceRelated ==
    /\ prefetch.pc = "rows"
    /\ \E s \in {sliceRelated(prefetch.T, prefetch.column, prefetch.rows, prefetch.batched)} :
          prefetch' = [prefetch EXCEPT !.pc = "returned", !.queried = s.queried,
                                       !.panic = s.r.panic, !.out = s.r.rows]
    /\ UNCHANGED prefetchIdle

PrefetchNext == SliceRelated

SpecPrefetch == PrefetchInit /\ [][PrefetchNext]_vars

(***************************************************************************)
(* Properties of the prefetch (SpecPrefetch).                              *)
(***************************************************************************)
(* The model the relation refers to, and the two primary-key fields. *)
RelatedModel == Use(FieldByName(prefetch.T, prefetch.column).To)

OwningModel == Use(prefetch.T)

(* The batched rows when the follow-up query was made, none otherwise. *)
Batched == IF prefetch.queried THEN prefetch.batched ELSE <<>>

(* To-one: the batched rows whose key is the key that row i refers to. *)
KeyMatches(i) ==
    {j \in DOMAIN Batched :
        Batched[j][RelatedModel.PrimaryField]
            = prefetch.rows[i][prefetch.column].Row[RelatedModel.PrimaryField]}

(* To-many: the batched rows that refer to the key of row i, in order. *)
Referrers(i) ==
    LET field == RelatedModel.Fields[FieldByName(prefetch.T, prefetch.column).db].Name
        refers(b) == b[field].Valid
                     /\ b[field].Row[OwningModel.PrimaryField]
                            = prefetch.rows[i][OwningModel.PrimaryField]
    IN SelectSeq(Batched, refers)

ToOneStitched(i) ==
    IF prefetch.rows[i][prefetch.column].Valid /\ KeyMatches(i) # {}
    THEN \E j \in KeyMatches(i) :
            prefetch.out[i] = [prefetch.rows[i] EXCEPT ![prefetch.column].Row = Batched[j]]
    ELSE prefetch.out[i] = prefetch.rows[i]

ToManyStitched(i) ==
    prefetch.out[i] = [prefetch.rows[i] EXCEPT ![prefetch.column].Rows = Referrers(i)]

RowsStitched ==
    /\ ~prefetch.panic
    /\ Len(prefetch.out) = Len(prefetch.rows)
    /\ \A i \in DOMAIN prefetch.rows :
          IF IsOneToMany(FieldByName(prefetch.T, prefetch.column).Type)
          THEN ToManyStitched(i) ELSE ToOneStitched(i)

(* C23: after the prefetch, for every pair of models, a valid to-one       *)
(* relation points at the batched row with the key it refers to if there   *)
(* is one and is unchanged otherwise, an invalid one stays as it is, and a *)
(* to-many relation holds the batched rows that refer to the owning row,   *)
(* each once, in the order of the batched result.                          *)
C23_RelationsStitched ==
    prefetch.pc = "returned" => RowsStitched

(* The same for the pairs whose primary keys are fields of one name. *)
SameKeyFieldStitched ==
    (prefetch.pc = "returned" /\ OwningModel.PrimaryField = RelatedModel.PrimaryField)
        => RowsStitched

(* With primary keys in fields of different names, the prefetch panics as  *)
(* soon as it has a batched row to compare.                                *)
OtherKeyFieldPanics ==
    (/\ prefetch.pc = "returned"
     /\ OwningModel.PrimaryField # RelatedModel.PrimaryField
     /\ prefetch.queried /\ prefetch.batched # <<>>
     /\ \/ IsOneToMany(FieldByName(prefetch.T, prefetch.column).Type)
        \/ \E i \in DOMAIN prefetch.rows : prefetch.rows[i][prefetch.column].Valid)
        => prefetch.panic

(* Members of a team fetched with their team: the prefetch panics. *)
PrefetchPanicked ==
    /\ prefetch.pc = "returned" /\ prefetch.panic
    /\ prefetch.T = "Members"

(* Groups fetched with two accounts each of which refers to a group. *)
ToManyFilled ==
    /\ prefetch.pc = "returned" /\ ~prefetch.panic
    /\ prefetch.T = "Groups"
    /\ \E i \in DOMAIN prefetch.out : Len(prefetch.out[i].Accounts.Rows) = 2

(***************************************************************************)
(* What a call adds to the filter list (SpecFilter).                       *)
(***************************************************************************)
(* The tokens after the first n. *)
Added(old, new) == SubSeq(new, Len(old) + 1, Len(new))

(* One leaf, or one bracket pair that opens at the first token and closes  *)
(* at the last.                                                            *)
LeafOrGroup(tokens) ==
    \/ Len(tokens) = 1 /\ tokens[1].Rule = "WHERE"
    \/ /\ Len(tokens) >= 2
       /\ tokens[1] = Rule("(")
       /\ tokens[Len(tokens)] = Rule(")")
       /\ GroupEnd(tokens, 2, 1) = Len(tokens)
       /\ WellBracketed(tokens)

FiltersExtended(old, new) ==
    /\ Len(new) > Len(old)
    /\ SubSeq(new, 1, Len(old)) = old
    /\ IF old # <<>>
       THEN /\ Added(old, new)[1] = Rule("AND")
            /\ LeafOrGroup(Tail(Added(old, new)))
       ELSE LeafOrGroup(Added(old, new))

(* C24: every call that changes the filter list keeps the tokens it finds  *)
(* as a prefix, appends one AND exactly when that prefix is not empty, and *)
(* then appends one leaf or one bracketed group; the join calls leave the  *)
(* filter list as it is.                                                   *)
C24_FiltersKeptAsPrefix ==
    [][/\ query'.Config.Filters # query.Config.Filters
            => FiltersExtended(query.Config.Filters, query'.Config.Filters)
       /\ query'.Config.Joins # query.Config.Joins
            => query'.Config.Filters = query.Config.Filters]_vars

(* A leaf, then a group of FilterOr: AND in front of the group, OR inside. *)
C24_Witness ==
    LET f == query.Config.Filters
    IN /\ Len(f) >= 6
       /\ f[1].Rule = "WHERE"
       /\ f[2] = Rule("AND")
       /\ f[3] = Rule("(")
       /\ GroupEnd(f, 4, 1) = Len(f)
       /\ \E k \in 4..Len(f) : f[k] = Rule("OR") /\ nesting.filters[k] = 1

(***************************************************************************)
(* A program that calls Filter, Join, Sort, Select, Limit and Offset on    *)
(* one Query in any order and then compiles it with BuildSelect.  declared *)
(* keeps what was passed to each kind of call: the leaves and the joins in *)
(* the order of their calls, and the last sort list, selected columns,     *)
(* limit and offset.                                                       *)
(***************************************************************************)
MaxOrderCalls == 3

(* Query.Sort, Query.Select, Query.Limit and Query.Offset on a configuration. *)
sorted(config, columns) == [config EXCEPT !.Sort = columns]

selected(config, columns) == [config EXCEPT !.Selected = columns]

limited(config, limit) == [config EXCEPT !.Limit = limit]

offsetBy(config, offset) == [config EXCEPT !.Offset = offset]

OrderLeaves == {Q(Str("id"), "=", Val(1)), Q(Str("name"), "=", Val(2))}

(* A join with one ON clause, with two, and with none. *)
OrderJoins ==
    {[table |-> "groups", clauses |-> <<ClauseArg(Q(Str("groups.id"), "=", Val(5)))>>],
     [table |-> "teams",
      clauses |-> <<ClauseArg(Q(Str("teams.guid"), "=", Val(6))),
                    ClauseArg(Rule("AND")),
                    ClauseArg(Q(Str("teams.id"), "=", Val(7)))>>],
     [table |-> "members", clauses |-> <<>>]}

orderIdle == <<call, defaultDialect, explicit, sent, ret,
               migrateVars, filterVars, registerVars, shareVars, sliceVars>>

OrderInit ==
    /\ call = NoCall
    /\ built = NotBuilt
    /\ defaultDialect = ""
    /\ query = NewQuery("Accounts")
    /\ explicit = ""
    /\ sent = <<>>
    /\ ret = NoRet
    /\ steps = 0
    /\ migrationlogs = NoTable
    /\ run = NoRun
    /\ combined = NoCombined
    /\ nesting = NoNesting
    /\ registeredModels = NoModels
    /\ heap = <<>>
    /\ used = NoUse
    /\ goroutines = NoGoroutines
    /\ accesses = {}
    /\ cursor = NoCursor
    /\ prefetch = NoPrefetch
    /\ declared = NoDeclared

OrderCall(config, d) ==
    /\ built = NotBuilt
    /\ steps < MaxOrderCalls
    /\ steps' = steps + 1
    /\ query' = [query EXCEPT !.Config = config]
    /\ declared' = d
    /\ UNCHANGED <<built, orderIdle>>

OrderFilter ==
    \E l \in OrderLeaves :
        OrderCall(Filter(query.Config, l.Left, l.Operator, l.Right),
                  [declared EXCEPT !.filters = Append(@, l)])

OrderJoin ==
    \E j \in OrderJoins :
        OrderCall(Join(query.Config, j.table, j.clauses),
                  [declared EXCEPT !.joins = Append(@, j)])

OrderSort ==
    \E columns \in {<<SortEntry(TRUE, "id")>>, <<SortEntry(FALSE, "name")>>} :
        OrderCall(sorted(query.Config, columns), [declared EXCEPT !.sort = columns])

OrderSelect ==
    \E columns \in {<<Str("id")>>, <<Str("id"), Str("name")>>} :
        OrderCall(selected(query.Config, columns), [declared EXCEPT !.selected = columns])

OrderLimit ==
    \E limit \in {10, 11} :
        OrderCall(limited(query.Config, limit), [declared EXCEPT !.limit = limit])

OrderOffset ==
    \E offset \in {20, 21} :
        OrderCall(offsetBy(query.Config, offset), [declared EXCEPT !.offset = offset])

(* dialect.BuildSelect(query.Config) after Query.configure. *)
OrderBuild ==
    /\ built = NotBuilt
    /\ \E d \in Dialects :
          built' = [dialect |-> d, r |-> BuildSelect(d, Configured(query.Config))]
    /\ UNCHANGED <<query, steps, declared, orderIdle>>

OrderNext ==
    \/ OrderFilter
    \/ OrderJoin
    \/ OrderSort
    \/ OrderSelect
    \/ OrderLimit
    \/ OrderOffset
    \/ OrderBuild

SpecOrder == OrderInit /\ [][OrderNext]_vars

(***************************************************************************)
(* Properties of the compiled SELECT (SpecOrder).                          *)
(***************************************************************************)
RECURSIVE joinsDeclared(_, _, _)
joinsDeclared(config, joins, i) ==
    IF i > Len(joins) THEN config
    ELSE joinsDeclared(Join(config, joins[i].table, joins[i].clauses), joins, i + 1)

RECURSIVE filtersDeclared(_, _, _)
filtersDeclared(config, filters, i) ==
    IF i > Len(filters) THEN config
    ELSE filtersDeclared(Filter(config, filters[i].Left, filters[i].Operator,
                                filters[i].Right), filters, i + 1)

(* The configuration after the same calls made kind by kind: the joins,    *)
(* the filters, Sort, Select, Limit, Offset.                               *)
KindByKind ==
    offsetBy(limited(selected(sorted(
        filtersDeclared(joinsDeclared(QueryConfig, declared.joins, 1), declared.filters, 1),
        declared.sort), declared.selected), declared.limit), declared.offset)

(* The positions of a token of the statement, and the tokens that follow   *)
(* the occurrences of a token, in order.                                   *)
TokenPositions(tok) == {i \in DOMAIN built.r.sql : built.r.sql[i] = tok}

RECURSIVE TokensAfter(_, _)
TokensAfter(tok, i) ==
    IF i >= Len(built.r.sql) THEN <<>>
    ELSE (IF built.r.sql[i] = tok THEN <<built.r.sql[i + 1]>> ELSE <<>>)
         \o TokensAfter(tok, i + 1)

Before(S, R) == \A i \in S, j \in R : i < j

(* The keywords of the statement come in the fixed order. *)
ClausesInOrder ==
    /\ built.r.sql[1] \in {"SELECT count(*) FROM ", "SELECT ", "SELECT * FROM "}
    /\ Before({1}, TokenPositions(" FROM ") \cup TokenPositions(" JOIN "))
    /\ Before(TokenPositions(" FROM "), TokenPositions(" JOIN "))
    /\ Before(TokenPositions(" JOIN "), TokenPositions(" WHERE"))
    /\ Before(TokenPositions(" JOIN ") \cup TokenPositions(" WHERE"),
              TokenPositions(" ORDER BY "))
    /\ Before(TokenPositions(" JOIN ") \cup TokenPositions(" WHERE")
                \cup TokenPositions(" ORDER BY "), TokenPositions(" LIMIT "))
    /\ Before(TokenPositions(" JOIN ") \cup TokenPositions(" WHERE")
                \cup TokenPositions(" ORDER BY ") \cup TokenPositions(" LIMIT "),
              TokenPositions(" OFFSET "))
    /\ Cardinality(TokenPositions(" WHERE")) = (IF declared.filters # <<>> THEN 1 ELSE 0)
    /\ Cardinality(TokenPositions(" ORDER BY ")) = (IF declared.sort # <<>> THEN 1 ELSE 0)
    /\ Cardinality(TokenPositions(" LIMIT ")) = (IF declared.limit # Nil THEN 1 ELSE 0)
    /\ Cardinality(TokenPositions(" OFFSET ")) = (IF declared.offset # Nil THEN 1 ELSE 0)

(* The values of the leaves of a list of clause arguments, in order. *)
RECURSIVE clauseValues(_, _)
clauseValues(clauses, i) ==
    IF i > Len(clauses) THEN <<>>
    ELSE (IF clauses[i].clauses[1].Rule = "WHERE"
          THEN clauses[i].clauses[1].Right.vals ELSE <<>>)
         \o clauseValues(clauses, i + 1)

RECURSIVE joinValues(_, _)
joinValues(joins, i) ==
    IF i > Len(joins) THEN <<>>
    ELSE clauseValues(joins[i].clauses, 1) \o joinValues(joins, i + 1)

(* The arguments in the order of the clauses: those of the joins, those of *)
(* the filters, the limit, the offset.                                     *)
ArgumentsInOrder ==
    built.r.args =
        joinValues(declared.joins, 1)
        \o [i \in DOMAIN declared.filters |-> declared.filters[i].Right.vals[1]]
        \o (IF declared.limit # Nil THEN <<declared.limit>> ELSE <<>>)
        \o (IF declared.offset # Nil THEN <<declared.offset>> ELSE <<>>)

(* The tables of the given joins follow the JOIN keywords, in order. *)
JoinsEmitted(joins) ==
    TokensAfter(" JOIN ", 1)
        = [k \in DOMAIN joins |-> QuoteIdentifier(built.dialect, joins[k].table)]

HasOn(j) == Len(flattened(<<>>, j.clauses, 1)) > 0

SelectCompiled == built # NotBuilt /\ built.r.err = NoErr

(* C25: the calls of different kinds commute, and BuildSelect writes the   *)
(* projection, FROM, every declared join in the order of declaration,      *)
(* WHERE, ORDER BY, LIMIT and OFFSET in this order, with the arguments in  *)
(* the same order, whatever the order of the calls.                        *)
C25_FixedClauseOrder ==
    /\ query.Config = KindByKind
    /\ SelectCompiled =>
          /\ ClausesInOrder
          /\ ArgumentsInOrder
          /\ JoinsEmitted(declared.joins)

(* The same, for the joins that have an ON clause: a join declared with no *)
(* ON clause is left out of the statement.                                 *)
JoinsWithOnInOrder ==
    /\ query.Config = KindByKind
    /\ SelectCompiled =>
          /\ ClausesInOrder
          /\ ArgumentsInOrder
          /\ JoinsEmitted(SelectSeq(declared.joins, HasOn))

(* Offset, then Limit, then Filter, compiled: WHERE, LIMIT, OFFSET. *)
OffsetLimitFilterCompiled ==
    /\ SelectCompiled
    /\ declared.filters # <<>> /\ declared.limit # Nil /\ declared.offset # Nil
    /\ query.Config.Filters # <<>>

(* A join declared with no ON clause, and a statement without it. *)
JoinLeftOut ==
    /\ SelectCompiled
    /\ Len(declared.joins) = 2
    /\ Len(TokensAfter(" JOIN ", 1)) = 1

(***************************************************************************)
(* Register and Use with two types of one name: the package-level struct   *)
(* Accounts and the struct Accounts declared inside a migration function.  *)
(***************************************************************************)
SameNameTypes == {"Accounts", "LocalAccounts"}

TypeConfigLists == {<<>>, <<Config("a")>>}

TypesNext ==
    \/ \E T \in SameNameTypes, configs \in TypeConfigLists : UseCall(T, configs)
    \/ \E T \in SameNameTypes, configs \in TypeConfigLists : RegisterCall(T, configs)

SpecTypes == RegisterInit /\ [][TypesNext]_vars

(* C26: Use[T] and Register[T] return a descriptor, and it is one that was *)
(* built for T: two distinct types never share an entry of the registry.   *)
C26_DescriptorOfOwnType ==
    used.op # "" =>
        /\ used.got # NoModel
        /\ heap[used.got].Type = used.T

(* Every call returns a descriptor named after its type, or panics. *)
DescriptorOfOwnName ==
    (used.op # "" /\ used.got # NoModel) =>
        TypeName(heap[used.got].Type) = TypeName(used.T)

(* The package-level Accounts is registered; Use of the migration's        *)
(* Accounts then finds its entry and panics in the type assertion.         *)
UseOfLocalTypePanics ==
    /\ used.op = "Use" /\ used.T = "LocalAccounts" /\ used.got = NoModel
    /\ \E key \in DOMAIN registeredModels : heap[registeredModels[key]].Type = "Accounts"


(***************************************************************************)
(* What an execution method leaves of the Query (specification Spec).      *)
(***************************************************************************)

(* The step is the call of an execution method. *)
ExecutionStep == ret = NoRet /\ ret' # NoRet

(* The fields of QueryConfig that only builder calls assign. *)
BuilderFields ==
    {"Filters", "Joins", "Sort", "Selected", "Offset", "FetchRelated",
     "Transaction", "Context", "Params"}

BuilderStateKept ==
    /\ query'.Model = query.Model
    /\ \A f \in BuilderFields : query'.Config[f] = query.Config[f]

(* detectDialect and configure: a dialect set on the Query stays, an     *)
(* unset one becomes the default; table and fields are the model's.        *)
MetadataFilled ==
    /\ query'.dialect = IF query.dialect # "" THEN query.dialect ELSE defaultDialect
    /\ query'.Config.Table = Use(query.Model).Table
    /\ query'.Config.Fields = Use(query.Model).Fields

LimitAndCountSet ==
    /\ query'.Config.Limit =
           IF ret'.op \in {"First", "FirstToMap", "Exists"} THEN 1 ELSE query.Config.Limit
    /\ query'.Config.Count = (query.Config.Count \/ ret'.op = "Count")

(* The method panicked in detectDialect, before it wrote anything. *)
PanickedAtStart == query.dialect = "" /\ defaultDialect = ""

(* The method obtained a cursor from the database and kept it. *)
CursorKept ==
    /\ ret'.op \in {"All", "AllToMap", "First", "FirstToMap"}
    /\ sent' # <<>>
    /\ ~ret'.in.dbErr

(* Count mode and the limit of the Query show in the statement All sends. *)
PersistInAll ==
    (ret'.op = "All" /\ sent' # <<>>) =>
        /\ query.Config.Count => sent'[1].sql[1] = "SELECT count(*) FROM "
        /\ query.Config.Limit = 1 => LimitOf(sent'[1]) = 1

ExecutionFrame ==
    /\ BuilderStateKept
    /\ IF PanickedAtStart
       THEN query'.Config = query.Config /\ query'.dialect = query.dialect
       ELSE MetadataFilled /\ LimitAndCountSet
    /\ PersistInAll

(* No call turns count mode off again. *)
CountModeKept == query.Config.Count => query'.Config.Count

(* C27 as stated: an execution method keeps filters, joins, sort,         *)
(* selected columns, offset, prefetch list, transaction and context; all  *)
(* it changes is table and column metadata, the resolved dialect, the      *)
(* limit (1 after First, FirstToMap, Exists) and count mode (on after      *)
(* Count); a later All compiles with the count mode and limit left behind. *)
C27_OnlyMetadataLimitCount ==
    [][/\ ExecutionStep => ExecutionFrame /\ query'.Rows = query.Rows
       /\ CountModeKept]_vars

(* C27, amended: as stated, except that All, AllToMap, First and          *)
(* FirstToMap also store the cursor of the statement they sent in the      *)
(* Query's Rows field, where it stays after the call.                      *)
MetadataLimitCountAndRows ==
    [][/\ ExecutionStep =>
            /\ ExecutionFrame
            /\ query'.Rows = IF CursorKept THEN query.Rows + 1 ELSE query.Rows
       /\ ~ExecutionStep => query'.Rows = query.Rows
       /\ CountModeKept]_vars

(* All ran on a Query that an earlier Count left in count mode and sent a  *)
(* count statement, and the Query holds that statement's cursor.           *)
C27_Witness ==
    /\ ret.op = "All"
    /\ sent # <<>>
    /\ query.Config.Count
    /\ sent[1].sql[1] = "SELECT count(*) FROM "
    /\ query.Rows = 1

(* All ran on a Query whose limit an earlier First or Exists left at 1.    *)
AllAfterFirst ==
    /\ ret.op = "All"
    /\ sent # <<>>
    /\ query.Rows = 2
    /\ query.Config.Limit = 1
    /\ LimitOf(sent[1]) = 1


(***************************************************************************)
(* Calls of the migration runner that follow one another (SpecMigrate).    *)
(***************************************************************************)

(* The current call directly follows a call of op that returned nil, and   *)
(* no step and no log insert has failed.                                   *)
FollowsCompleted(op) ==
    /\ run.prev.op = op
    /\ run.prev.err = NoErr
    /\ ~run.failed
    /\ SetupDone

ExecutesNothing == run.called = <<>> /\ RowsAdded = <<>>

(* The call has returned nil after the up-steps of the whole list. *)
ExecutedWholeList ==
    (run.pc = "returned" /\ run.err = NoErr) =>
        /\ Len(run.called) = Len(run.migrations)
        /\ StepsInOrder(DirUp, 0, 1)

(* C28: with no failing step or log insert, MigrateUp directly after a     *)
(* completed MigrateUp and MigrateDown directly after a completed          *)
(* MigrateDown execute no step and insert no log row, and MigrateUp after  *)
(* a completed MigrateDown executes the whole list from the first.         *)
C28_RepeatedRunsIdempotent ==
    /\ (run.op = "MigrateUp" /\ FollowsCompleted("MigrateUp")) => ExecutesNothing
    /\ (run.op = "MigrateDown" /\ FollowsCompleted("MigrateDown")) => ExecutesNothing
    /\ (run.op = "MigrateUp" /\ FollowsCompleted("MigrateDown")) => ExecutedWholeList

(* The same, for calls before which migrateSetup has always been answered  *)
(* with the entry inserted last.                                           *)
RepeatedRunsIdempotentUnlessMisread ==
    ~run.misread => C28_RepeatedRunsIdempotent

(* A second MigrateUp calls an up-step although the first returned nil. *)
UpAfterUpExecutesStep ==
    /\ run.op = "MigrateUp"
    /\ FollowsCompleted("MigrateUp")
    /\ run.called # <<>>
    /\ run.misread

(* The step the runner calls in this transition, if it calls one. *)
StepCalled == Len(run'.called) > Len(run.called)

LastCalled == run'.called[Len(run'.called)]

(* Up is called only for a migration that is not applied, Down only for    *)
(* one that is.                                                            *)
StepFitsApplied ==
    IF LastCalled.dir = DirUp
    THEN LastCalled.i \notin run.applied
    ELSE LastCalled.i \in run.applied

(* C29: whatever steps and log inserts fail, no up-step is executed while  *)
(* its migration is applied and no down-step while it is not applied.      *)
C29_NoStepAgainstApplied ==
    [][StepCalled => StepFitsApplied]_vars

(* The same, as long as every successful step got its log row and every    *)
(* migrateSetup was answered with the entry inserted last.                 *)
NoStepAgainstAppliedWhileLogged ==
    [][(StepCalled /\ ~run.unlogged /\ ~run.misread) => StepFitsApplied]_vars

(* An up-step is called again after its log insert failed. *)
UpStepRepeatedAfterFailedInsert ==
    /\ run.op = "MigrateUp"
    /\ run.unlogged
    /\ ~run.misread
    /\ run.prev.err = ErrLogInsert
    /\ \E k \in DOMAIN run.called :
          run.called[k].dir = DirUp /\ run.called[k].ok /\ run.applied = {run.called[k].i}
              /\ Len(RowsAdded) = 0 /\ run.pc = "returned" /\ run.err = ErrLogInsert


(***************************************************************************)
(* The follow-up queries of All with FetchRelated (specification Spec).    *)
(***************************************************************************)

(* The statements All sent after the primary one. *)
FollowUps == {i \in DOMAIN sent : i > 1}

(* The statement is SELECT * FROM the related table WHERE column IN (...)  *)
(* and nothing else: one argument per placeholder of the IN list.          *)
OnlyInFilter(stmt) ==
    /\ stmt.sql[1] = "SELECT * FROM "
    /\ stmt.sql[2] =
           QuoteIdentifier(stmt.dialect,
                           Use(FieldByName(query.Model, stmt.related).To).Table)
    /\ stmt.sql[3] = " WHERE"
    /\ stmt.sql[7] = "IN"
    /\ stmt.sql[8] = " ("
    /\ stmt.sql[Len(stmt.sql)] = ")"
    /\ Occurrences(stmt.sql, " WHERE") = 1
    /\ \A token \in {" AND ", " OR ", " ORDER BY ", " LIMIT ", " OFFSET ", " JOIN "} :
          token \notin Range(stmt.sql)
    /\ Len(Placeholders(stmt.sql)) = Len(stmt.args)
    /\ Len(stmt.sql) = 8 + 2 * Len(stmt.args)

(* C30: a follow-up query carries only the IN filter, nothing of the       *)
(* primary query's filters, sort, limit or offset and no prefetch of its   *)
(* own, so All sends at most 1 + (number of requested names) statements,   *)
(* also between two models that reference each other.                      *)
C30_FollowUpsOnlyInFilter ==
    (ret.op = "All" /\ sent # <<>>) =>
        /\ Len(sent) <= 1 + Len(query.Config.FetchRelated)
        /\ \A i \in FollowUps :
              /\ sent[i].related \in Range(query.Config.FetchRelated)
              /\ OnlyInFilter(sent[i])
              /\ \A j \in FollowUps : sent[j].related = sent[i].related => j = i

(* A filtered All on Groups prefetched its Accounts, whose rows refer      *)
(* back to Groups: two statements were sent.                               *)
C30_Witness ==
    /\ ret.op = "All"
    /\ ret.err = NoErr
    /\ query.Model = "Groups"
    /\ query.Config.FetchRelated = <<"Accounts">>
    /\ query.Config.Filters # <<>>
    /\ Len(sent) = 2
    /\ sent[2].related = "Accounts"
    /\ " WHERE" \in Range(sent[1].sql)

(* The same from the other side, with a sorted, a limited and an offset    *)
(* primary query.                                                          *)
FollowUpOfSortedQuery ==
    /\ ret.op = "All"
    /\ query.Model = "Accounts"
    /\ Len(sent) = 2
    /\ sent[2].related = "Group"
    /\ " ORDER BY " \in Range(sent[1].sql)

FollowUpOfLimitedQuery ==
    /\ ret.op = "All"
    /\ Len(sent) = 2
    /\ " LIMIT " \in Range(sent[1].sql)

FollowUpOfOffsetQuery ==
    /\ ret.op = "All"
    /\ Len(sent) = 2
    /\ " OFFSET " \in Range(sent[1].sql)

====
